---------------------------- MODULE Spec2Model ----------------------------
(***************************************************************************)
(* A model of the MikroTik device automation code: the backup manager and  *)
(* the update orchestrator of src/core (BackupManager, MikroTikUpdater on  *)
(* top of MikroTikSSHConnector) and the update operations of the web       *)
(* application's MikroTikManager (src/mikrotik_manager.py), run against    *)
(* one device whose shell may fail, answer with arbitrary text and write   *)
(* files asynchronously.                                                   *)
(*                                                                         *)
(* Texts are TLA+ strings handled character by character, so the code's    *)
(* substring tests and regular expressions are computed, not assumed.      *)
(***************************************************************************)
EXTENDS Integers, Sequences, FiniteSets, TLC

VARIABLES
    files,              \* the names of the files on the device
    pending,            \* files an accepted save command has not written yet
    clock,              \* index of the current minute in Timestamps
    nOps,               \* operations started so far
    op,                 \* the public operation in progress
    prevOp,             \* the operation that ran before it
    pc,                 \* the position inside the operation
    backups,            \* delete_old_backups: backups
    idx,                \* delete_old_backups: position of backup_file in backups
    deleted_count,      \* delete_old_backups: deleted_count
    comment,            \* create_backup: comment
    backup_base_name,   \* create_backup: backup_base_name
    attempt,            \* create_backup: attempt
    cb_ret,             \* create_backup: the value returned
    poll_i,             \* install_update: i
    with_backup,        \* perform_update_with_backup: create_backup
    backup_result,      \* perform_update_with_backup: backup_result['status']
    update_result,      \* perform_update_with_backup: update_result['status']
    result,             \* the value the operation returned
    sent,               \* the kinds of changing command the device received during it
    seen,               \* what the device really answered during the operation
    sessions,           \* the SSH sessions that are open
    task,               \* the batch run in progress
    requested,          \* batch run: the devices it was asked to process
    devices,            \* batch run: devices, the list it iterates over
    position,           \* batch run: index of the device being processed
    results,            \* batch run: results
    operated,           \* batch run: the devices an operation was attempted on
    down,               \* batch run: the devices that cannot be reached
    current,            \* _compare_versions: current
    latest,             \* _compare_versions: latest
    newer,              \* _compare_versions: what the call gave
    cycle,              \* task_auto_update: the turn of the loop for one device
    reply,              \* the lines a parser was given
    info,               \* what the parser made of them
    running,            \* the batch run each thread is executing
    keep,               \* MikroTikManager.delete_old_backups: keep_count
    is_running,         \* TaskScheduler.is_running
    registered,         \* the tasks that have a job in the schedule module
    loops,              \* the position of each _scheduler_loop thread created
    config,             \* scheduler.yaml: 'enabled' and 'days' of one task
    job_days,           \* the weekdays on which the schedule module fires the task's job
    today,              \* the weekday on which the job fired
    executed,           \* what the task's body did when it was fired
    tasks,              \* the Task rows of the web application's database
    jobs,               \* the ids of the tasks that have a job in the BackgroundScheduler
    exec,               \* execute_task in progress: its task and the devices left
    users,              \* the User rows of the web application's database
    inflight            \* the requests admitted whose handler has not committed yet

devVars  == <<files, pending, clock>>
opVars   == <<nOps, op, prevOp>>
delVars  == <<backups, idx, deleted_count>>
cbVars   == <<comment, backup_base_name, attempt, cb_ret>>
mgrVars  == <<with_backup, backup_result, update_result>>
batchVars == <<task, requested, devices, position, results, operated, down>>
cmpVars  == <<current, latest, newer>>
loopVars == <<is_running, registered, loops>>
gateVars == <<config, job_days, today, executed>>
taskVars == <<tasks, jobs, exec>>
userVars == <<users, inflight>>
appVars  == <<loopVars, gateVars, taskVars, userVars>>
otherVars == <<reply, info, running, keep, appVars>>
runVars  == <<cycle, otherVars>>
sideVars == <<sessions, batchVars, cmpVars, runVars>>
vars     == <<files, pending, clock, nOps, op, prevOp, pc, backups, idx,
              deleted_count, comment, backup_base_name, attempt, cb_ret, poll_i,
              with_backup, backup_result, update_result, result, sent, seen,
              sessions, task, requested, devices, position, results, operated, down,
              current, latest, newer, cycle, reply, info, running,
              keep, is_running, registered, loops, config, job_days, today, executed,
              tasks, jobs, exec, users, inflight>>

---------------------------------------------------------------------------
(* Bounds of the model *)

\* operations run one after the other on the device
MaxOps == 2

---------------------------------------------------------------------------
(* Python's str operations *)

Char(s, i) == SubSeq(s, i, i)

UpperLetters == "ABCDEFGHIJKLMNOPQRSTUVWXYZ"
LowerLetters == "abcdefghijklmnopqrstuvwxyz"
Digits       == "0123456789"

InStr(c, alphabet) == \E i \in 1..Len(alphabet) : Char(alphabet, i) = c

\* str.lower() of one character
LowerChar(c) ==
    IF InStr(c, UpperLetters)
    THEN Char(LowerLetters, CHOOSE i \in 1..26 : Char(UpperLetters, i) = c)
    ELSE c

RECURSIVE Lower(_)
\* str.lower()
Lower(s) == IF s = "" THEN "" ELSE LowerChar(Head(s)) \o Lower(Tail(s))

\* s[i:].startswith(p), i counted from 1
StartsAt(s, p, i) == i >= 1 /\ i + Len(p) - 1 <= Len(s) /\ SubSeq(s, i, i + Len(p) - 1) = p

\* p in s
Contains(s, p) == \E i \in 1..(Len(s) - Len(p) + 1) : StartsAt(s, p, i)

StartsWith(s, p) == StartsAt(s, p, 1)
EndsWith(s, p)   == StartsAt(s, p, Len(s) - Len(p) + 1)

\* \s of the re module
IsSpace(c) == c \in {" ", "\t", "\n", "\r"}

\* \w of the re module
IsWord(c) == InStr(c, UpperLetters) \/ InStr(c, LowerLetters) \/ InStr(c, Digits) \/ c = "_"

\* str.strip() leaves something
StripNonEmpty(s) == \E i \in 1..Len(s) : ~IsSpace(Char(s, i))

RECURSIVE RemoveNonWord(_)
\* re.sub(r'[^\w]', '', s)
RemoveNonWord(s) ==
    IF s = "" THEN ""
    ELSE (IF IsWord(Head(s)) THEN Head(s) ELSE "") \o RemoveNonWord(Tail(s))

\* s[:n]
Prefix(s, n) == SubSeq(s, 1, IF Len(s) < n THEN Len(s) ELSE n)

\* x in list
InList(x, list) == \E i \in 1..Len(list) : list[i] = x

Min(S) == CHOOSE x \in S : \A y \in S : x <= y
Max(S) == CHOOSE x \in S : \A y \in S : x >= y

---------------------------------------------------------------------------
(* The device: its files and what its shell prints *)

\* strftime("%m%d_%H%M") at the successive minutes of a run
Timestamps == <<"1106_1200", "1106_1201">>

\* the comments create_backup is called with: by the scheduled backup task
\* (scheduler.py, line 337), by install_update (updater.py, line 124) and by
\* the automatic update (scheduler.py, line 235)
Comments == <<"scheduled", "before_update", "auto_update">>

\* device.name of the web application's record of the device, and the first
\* three digits of its md5
DeviceName == "R1"
DeviceHash == "cda"

\* strftime("%H%M%S")[:4] at the minute whose strftime("%m%d_%H%M") is ts
HourMinute(ts) == SubSeq(ts, 6, 9)

\* perform_update_with_backup, lines 539-544: f"b{device_hash}{timestamp[:4]}"[:8]
MgrBackupName(ts) == Prefix("b" \o DeviceHash \o HourMinute(ts), 8)

BackupPrefix == "mum_"

\* _generate_short_backup_name, with the time read as ts
ShortBackupName(ts, cmt) ==
    LET base_name == BackupPrefix \o ts
        full == IF cmt # ""
                THEN base_name \o "_" \o Prefix(RemoveNonWord(cmt), 10)
                ELSE base_name
    IN  Prefix(full, 20)

\* files found on the device before the first operation: a backup of another
\* tool, an older backup of this one, and one with the short extension
InitialFiles == <<"cfg.backup", "mum_old.backup", "mum_x.bac">>

\* the files the save commands of the model can write: the device adds .backup
SavedFiles ==
    [k \in 1..(Len(Timestamps) * Len(Comments)) |->
        ShortBackupName(Timestamps[((k - 1) \div Len(Comments)) + 1],
                        Comments[((k - 1) % Len(Comments)) + 1]) \o ".backup"]

\* the files the save commands of MikroTikManager can write
MgrSavedFiles == [k \in 1..Len(Timestamps) |-> MgrBackupName(Timestamps[k]) \o ".backup"]

\* a file a device may hold from before: the name of a backup of the first
\* minute, with the short extension _find_matching_backup also accepts
ShortFiles == <<ShortBackupName(Timestamps[1], Comments[1]) \o ".bac">>

\* the order in which the device lists its files
DeviceOrder == InitialFiles \o ShortFiles \o SavedFiles \o MgrSavedFiles

FileNames == {DeviceOrder[k] : k \in 1..Len(DeviceOrder)}

\* a backup of this tool, as the naming convention has it
IsPrefixBackup(name) ==
    StartsWith(name, BackupPrefix) /\ (EndsWith(name, ".backup") \/ EndsWith(name, ".bac"))

PrefixBackups(fs) == {f \in fs : IsPrefixBackup(f)}

\* one row of "/file print": number, name, type, size
FileLine(n, name) ==
    " " \o Char(Digits, n + 1) \o " " \o name \o
    (IF EndsWith(name, ".backup") THEN "  backup  " ELSE "  file  ") \o
    "15.2KiB  nov/06/2026 11:58:03"

\* "/file print" on a device holding fs, as the lines read from stdout
FilePrint(fs) ==
    LET shown == SelectSeq(DeviceOrder, LAMBDA f : f \in fs)
    IN  <<"# NAME  TYPE  SIZE  CREATION-TIME">> \o [k \in 1..Len(shown) |-> FileLine(k - 1, shown[k])]

\* '/file print where name~"backup"': the rows whose name matches the pattern
FilePrintWhereNameBackup(fs) == FilePrint({f \in fs : Contains(f, "backup")})

\* what a command that reached the device may write to stderr
StderrKinds == {"none", "blank", "warning", "error_lower", "error_upper"}
ErrorKinds  == {"error_lower", "error_upper"}

Stderr(kind) ==
    CASE kind = "none"        -> <<>>
      [] kind = "blank"       -> <<"  ">>
      [] kind = "warning"     -> <<"warning: configuration changed">>
      [] kind = "error_lower" -> <<"", "input does not match any value: error">>
      [] kind = "error_upper" -> <<"failure: ERROR, not enough space">>

\* what "/system package update print" may answer
StatusKinds == {"empty", "downloading", "downloaded", "error", "both"}
ShowsDownloaded == {"downloaded", "both"}
ShowsError      == {"error", "both"}

StatusOutput(kind) ==
    CASE kind = "empty"       -> <<>>
      [] kind = "downloading" -> <<"  channel: stable", "  status: Downloading 40%">>
      [] kind = "downloaded"  -> <<"  channel: stable",
                                   "  status: Downloaded, please reboot router to upgrade it">>
      [] kind = "error"       -> <<"  status: ERROR: could not resolve dns name">>
      [] kind = "both"        -> <<"  status: Downloaded, please reboot", "  last-error: none">>

\* a call of the connector: the session opens and the reply is read ("ok"), the
\* session does not open ("refused"), or the command is written and the reply
\* is lost ("lost"); the last two raise
Transports == {"ok", "refused", "lost"}
Delivered(t) == t # "refused"
Raises(t)    == t # "ok"

\* the commands that change the device; the listings and the status query do not
CmdKinds == {"remove", "save", "download", "install"}

\* the device received a command of kind k, when the call delivered it
Send(k, t) == IF Delivered(t) THEN sent \cup {k} ELSE sent

---------------------------------------------------------------------------
(* BackupManager (src/core/backup_manager.py): the pure parts *)

\* \.(?:backup|bac) matches at position k of line
ExtAt(line, k) == StartsAt(line, ".backup", k) \/ StartsAt(line, ".bac", k)

\* the last position of that match: "backup" is tried first
ExtEnd(line, k) == IF StartsAt(line, ".backup", k) THEN k + 6 ELSE k + 3

\* the characters a run of the pattern stops at: \S+ stops at whitespace,
\* [^\s"]+ at whitespace and at the quote
Excluded(c, quote) == IsSpace(c) \/ (quote /\ c = "\"")

\* the last position of the longest run of characters not excluded that
\* starts at i (i - 1 when line[i] is excluded)
RunLimit(line, i, quote) ==
    LET RECURSIVE Scan(_)
        Scan(j) == IF j <= Len(line) /\ ~Excluded(Char(line, j), quote) THEN Scan(j + 1) ELSE j - 1
    IN  Scan(i)

\* the ends j of a run line[i..j] of characters not excluded, at least one
\* long, after which the extension matches
RunEnds(line, i, quote) ==
    {j \in i..RunLimit(line, i, quote) : ExtAt(line, j + 1)}

\* re.search(lead + run + r'\.(?:backup|bac)', line).group(0), or "" when nothing
\* matches: the leftmost start, then the longest run (+ is greedy)
SearchName(line, lead, quote) ==
    LET starts == {i \in 1..Len(line) :
                      StartsAt(line, lead, i) /\ RunEnds(line, i + Len(lead), quote) # {}}
    IN  IF starts = {} THEN ""
        ELSE LET i == Min(starts)
                 j == Max(RunEnds(line, i + Len(lead), quote))
             IN  SubSeq(line, i, ExtEnd(line, j + 1))

\* list_backups as it would be without the prefix in its pattern
ParseAnyBackup(output) ==
    LET RECURSIVE Walk(_)
        Walk(k) ==
            IF k > Len(output) THEN <<>>
            ELSE LET name == SearchName(output[k], "", TRUE)
                 IN  (IF name # "" THEN <<name>> ELSE <<>>) \o Walk(k + 1)
    IN  Walk(1)

\* list_backups, lines 50-56: the names parsed from the listing
ParseBackups(output) ==
    LET RECURSIVE Walk(_)
        Walk(k) ==
            IF k > Len(output) THEN <<>>
            ELSE LET line == output[k]
                     name == IF Contains(line, BackupPrefix)
                             THEN SearchName(line, BackupPrefix, TRUE)
                             ELSE ""
                 IN  (IF name # "" THEN <<name>> ELSE <<>>) \o Walk(k + 1)
    IN  Walk(1)

\* list_backups: the listing is parsed, and an exception gives []
ListBackups(t) ==
    IF Raises(t) THEN <<>> ELSE ParseBackups(FilePrintWhereNameBackup(files))

\* _find_matching_backup as it would be without the test on base_name
MatchAnyBackup(all_files, base_name) ==
    LET Hit(line) ==
            /\ (Contains(Lower(line), ".backup") \/ Contains(Lower(line), ".bac"))
            /\ SearchName(line, "", FALSE) # ""
        hits == {k \in 1..Len(all_files) : Hit(all_files[k])}
    IN  IF hits = {} THEN "" ELSE SearchName(all_files[Min(hits)], "", FALSE)

\* _find_matching_backup, lines 34-40, on the lines of "/file print"
MatchIn(all_files, base_name) ==
    LET Hit(line) ==
            /\ Contains(line, base_name)
            /\ (Contains(Lower(line), ".backup") \/ Contains(Lower(line), ".bac"))
            /\ SearchName(line, "", FALSE) # ""
        hits == {k \in 1..Len(all_files) : Hit(all_files[k])}
    IN  IF hits = {} THEN "" ELSE SearchName(all_files[Min(hits)], "", FALSE)

\* _find_matching_backup: an exception gives ""
FindMatchingBackup(t, base_name) ==
    IF Raises(t) THEN "" ELSE MatchIn(FilePrint(files), base_name)

\* the stderr test as it would be without lower()
StderrHasErrorCaseSensitive(error) ==
    /\ error # <<>>
    /\ \E k \in 1..Len(error) : StripNonEmpty(error[k]) /\ Contains(error[k], "error")

\* the test made on the stderr of the save, download and install commands
StderrHasError(error) ==
    /\ error # <<>>
    /\ \E k \in 1..Len(error) : StripNonEmpty(error[k]) /\ Contains(Lower(error[k]), "error")

\* max_attempts of create_backup
MaxAttempts == 8

---------------------------------------------------------------------------
(* The state after construction, and the start of an operation *)

NoReturn == [returned |-> FALSE, ok |-> FALSE, name |-> ""]
NoResult == [ok |-> FALSE, kind |-> "", count |-> 0, name |-> ""]

\* no turn of task_auto_update's loop is in progress
NoCycle == [phase |-> "", backup_name |-> "", status |-> ""]

\* keep_count of the cleanup that follows the update (line 558)
KeepCount == 5

\* the threads that start batch runs: the scheduler thread (scheduler.py,
\* line 450), the main thread with its menu (main.py, line 653) and the
\* workers of the web application's BackgroundScheduler (app.py, line 101)
Threads == {"scheduler", "main", "worker1", "worker2"}

\* the scheduler thread is not started yet and no thread runs a task
NoRuns == [th \in Threads |-> IF th = "scheduler" THEN "not started" ELSE ""]

\* no parser has been called
NoInfo == [parser |-> ""]

\* nothing has run yet: no operation, no batch run, no comparison
\* the ids the Task rows of the model take
TaskIds == {1, 2}

\* a Task row that does not exist
NoTask == [exists |-> FALSE, is_active |-> FALSE, cron_expression |-> FALSE]

\* the table of tasks of a new database, and no execute_task in progress
NoTasks == [id \in TaskIds |-> NoTask]
NoExec  == [task_id |-> 0, left |-> 0]

\* the users of the model: the one app.py creates, and two more
UserNames == {"admin", "second", "third"}

\* a User row that does not exist
NoUser == [exists |-> FALSE, role |-> "", is_active |-> FALSE, is_admin |-> FALSE]

\* app.py 109-121: the database after the first start
DefaultUsers ==
    [n \in UserNames |->
        IF n = "admin"
        THEN [exists |-> TRUE, role |-> "admin", is_active |-> TRUE, is_admin |-> TRUE]
        ELSE NoUser]

\* a task that scheduler.yaml does not enable
NoConfig == [enabled |-> FALSE, days |-> <<>>]

Quiet ==
    /\ pending = {}
    /\ clock = 1
    /\ nOps = 0
    /\ op = "idle" /\ prevOp = "idle"
    /\ pc = "idle"
    /\ backups = <<>> /\ idx = 0 /\ deleted_count = 0
    /\ comment = "" /\ backup_base_name = "" /\ attempt = 0 /\ cb_ret = NoReturn
    /\ poll_i = 0
    /\ with_backup = FALSE /\ backup_result = "" /\ update_result = ""
    /\ result = NoResult
    /\ sent = {}
    /\ seen = {}
    /\ sessions = 0
    /\ task = "" /\ requested = <<>> /\ devices = <<>> /\ position = 0
    /\ results = <<>> /\ operated = {} /\ down = {}
    /\ newer = "not called"
    /\ cycle = NoCycle
    /\ reply = <<>> /\ info = NoInfo
    /\ running = NoRuns
    /\ keep = KeepCount
    /\ is_running = FALSE /\ registered = {} /\ loops = <<>>
    /\ job_days = {} /\ today = "" /\ executed = "not fired"
    /\ tasks = NoTasks /\ jobs = {} /\ exec = NoExec
    /\ users = DefaultUsers /\ inflight = {}

Init ==
    /\ files \in SUBSET {InitialFiles[k] : k \in 1..Len(InitialFiles)}
    /\ current = "" /\ latest = ""
    /\ config = NoConfig
    /\ Quiet

\* a caller invokes the public operation o: its locals are fresh
Begin(o, first, cmt, wb) ==
    /\ pc \in {"idle", "done"}
    /\ nOps < MaxOps
    /\ nOps' = nOps + 1
    /\ op' = o /\ prevOp' = op
    /\ pc' = first
    /\ backups' = <<>> /\ idx' = 0 /\ deleted_count' = 0
    /\ comment' = cmt /\ backup_base_name' = "" /\ attempt' = 0 /\ cb_ret' = NoReturn
    /\ poll_i' = 0
    /\ with_backup' = wb /\ backup_result' = "" /\ update_result' = ""
    /\ result' = NoResult
    /\ sent' = {}
    /\ seen' = {}
    /\ UNCHANGED <<devVars, sideVars>>

\* the operation returns r to its caller: its locals are gone
Return(r) ==
    /\ pc' = "done"
    /\ result' = r
    /\ backups' = <<>> /\ idx' = 0 /\ deleted_count' = 0
    /\ comment' = "" /\ backup_base_name' = "" /\ attempt' = 0 /\ cb_ret' = NoReturn
    /\ poll_i' = 0
    /\ with_backup' = FALSE /\ backup_result' = "" /\ update_result' = ""

\* the operation goes on at label
Goto(label) == pc' = label /\ result' = result

Failure(kind, name) == [ok |-> FALSE, kind |-> kind, count |-> 0, name |-> name]
Success(kind, name) == [ok |-> TRUE, kind |-> kind, count |-> 0, name |-> name]

---------------------------------------------------------------------------
(* The device acting on its own *)

\* the device writes a file that an accepted save command asked for
DeviceWrite ==
    /\ \E f \in pending :
        /\ files' = files \cup {f}
        /\ pending' = pending \ {f}
    /\ UNCHANGED <<clock, opVars, sideVars, pc, delVars, cbVars, poll_i, mgrVars, result, sent, seen>>

\* a minute passes; an operation reads the clock once, for the name of its
\* backup, so only the minutes that pass between two operations are told apart
Tick ==
    /\ pc \in {"idle", "done"}
    /\ clock < Len(Timestamps)
    /\ clock' = clock + 1
    /\ UNCHANGED <<files, pending, opVars, sideVars, pc, delVars, cbVars, poll_i, mgrVars, result,
                   sent, seen>>

\* what a "/file remove" that reached the device may do to the file
RemoveEffects(t) == IF Delivered(t) THEN {TRUE, FALSE} ELSE {FALSE}

\* what a "/system backup save" that reached the device may do
SaveEffects(t) == IF Delivered(t) THEN {TRUE, FALSE} ELSE {FALSE}

\* what is read from stderr when the reply arrives
StderrRead(t) == IF t = "ok" THEN StderrKinds ELSE {"none"}

\* what is read from stdout of the status query when the reply arrives
StatusRead(t) == IF t = "ok" THEN StatusKinds ELSE {"empty"}

---------------------------------------------------------------------------
(* BackupManager.delete_old_backups *)

StartDeleteOldBackups == Begin("delete", "del_list", "", FALSE)

\* the loop as it would be with a break in place of the continue of line 92
AbortPass == "del_ret"

\* after backups[idx]: the next backup_file of the loop, or the end of the pass
NextBackup == IF idx + 1 > Len(backups) THEN "del_ret" ELSE "del_rm1"

\* the rows of '/file print where name~"backup"' hold no backup with the prefix
ListingHasNone == PrefixBackups({f \in files : Contains(f, "backup")}) = {}

\* line 68: backups = self.list_backups(device_name)
DelList ==
    /\ pc = "del_list"
    /\ \E t \in Transports :
        /\ backups' = ListBackups(t)
    /\ seen' = seen \cup (IF ListingHasNone THEN {"listed_none"} ELSE {})
    /\ idx' = 1
    /\ deleted_count' = 0
    /\ pc' = IF backups' = <<>> THEN "del_ret" ELSE "del_rm1"
    /\ UNCHANGED <<devVars, opVars, sideVars, cbVars, poll_i, mgrVars, result, sent>>

\* line 77: /file remove "<backup_file>"; an exception skips to the next file
DelRemoveFirst ==
    /\ pc = "del_rm1"
    /\ \E t \in Transports : \E gone \in RemoveEffects(t) :
        /\ files' = IF gone THEN files \ {backups[idx]} ELSE files
        /\ sent' = Send("remove", t)
        /\ IF Raises(t)
           THEN idx' = idx + 1 /\ pc' = NextBackup
           ELSE idx' = idx /\ pc' = "del_rm2"
    /\ UNCHANGED <<pending, clock, opVars, sideVars, backups, deleted_count, cbVars, poll_i, mgrVars,
                   result, seen>>

\* line 80: /file remove [find name="<backup_file>"]
DelRemoveFind ==
    /\ pc = "del_rm2"
    /\ \E t \in Transports : \E gone \in RemoveEffects(t) :
        /\ files' = IF gone THEN files \ {backups[idx]} ELSE files
        /\ sent' = Send("remove", t)
        /\ IF Raises(t)
           THEN idx' = idx + 1 /\ pc' = NextBackup
           ELSE idx' = idx /\ pc' = "del_verify"
    /\ UNCHANGED <<pending, clock, opVars, sideVars, backups, deleted_count, cbVars, poll_i, mgrVars,
                   result, seen>>

\* the test of lines 83-84 on the second listing
CountsAsDeleted(backup_file, remaining_backups) == ~InList(backup_file, remaining_backups)

\* lines 83-88: the file counts as deleted when the second listing lacks it
DelVerify ==
    /\ pc = "del_verify"
    /\ \E t \in Transports :
        /\ deleted_count' = IF CountsAsDeleted(backups[idx], ListBackups(t))
                            THEN deleted_count + 1
                            ELSE deleted_count
    /\ idx' = idx + 1
    /\ pc' = NextBackup
    /\ UNCHANGED <<devVars, opVars, sideVars, backups, cbVars, poll_i, mgrVars, result, sent, seen>>

\* line 95: return deleted_count, to the caller or to create_backup (line 106),
\* which does not read it; the locals of the pass are gone
DelReturn ==
    /\ pc = "del_ret"
    /\ IF op = "delete"
       THEN Return([ok |-> TRUE, kind |-> "deleted", count |-> deleted_count, name |-> ""])
       ELSE /\ Goto("cb_save")
            /\ backups' = <<>> /\ idx' = 0 /\ deleted_count' = 0
            /\ UNCHANGED <<cbVars, poll_i, mgrVars>>
    /\ UNCHANGED <<devVars, opVars, sideVars, sent, seen>>

---------------------------------------------------------------------------
(* BackupManager.create_backup *)

\* lines 105-106: create_backup starts with the deletion pass
StartCreateBackup == Begin("create", "del_list", "scheduled", FALSE)

CbReturns(ok, name) == cb_ret' = [returned |-> TRUE, ok |-> ok, name |-> name] /\ pc' = "cb_ret"

\* lines 108-118: the name is generated and the save command issued
CbSave ==
    /\ pc = "cb_save"
    /\ backup_base_name' = ShortBackupName(Timestamps[clock], comment)
    /\ \E t \in Transports : \E kind \in StderrRead(t) : \E written \in SaveEffects(t) :
        /\ pending' = IF written THEN pending \cup {backup_base_name' \o ".backup"} ELSE pending
        /\ sent' = Send("save", t)
        /\ seen' = seen \cup (IF kind \in ErrorKinds THEN {"save_error"} ELSE {})
        /\ IF Raises(t) \/ StderrHasError(Stderr(kind))
           THEN CbReturns(FALSE, "")
           ELSE cb_ret' = cb_ret /\ pc' = "cb_poll"
    /\ attempt' = 0
    /\ UNCHANGED <<files, clock, opVars, sideVars, delVars, comment, poll_i, mgrVars, result>>

\* a file of the device that the polls of create_backup are waiting for
IsAwaited(f, base_name) ==
    Contains(f, base_name) /\ (EndsWith(f, ".backup") \/ EndsWith(f, ".bac"))

\* lines 125-134: one poll of the file listing
CbPoll ==
    /\ pc = "cb_poll"
    /\ attempt < MaxAttempts
    /\ \E t \in Transports :
        LET actual_backup_name == FindMatchingBackup(t, backup_base_name) IN
        /\ seen' = seen \cup (IF t = "ok" /\ \E f \in files : IsAwaited(f, backup_base_name)
                              THEN {"file_shown"} ELSE {})
        /\ IF actual_backup_name # ""
           THEN CbReturns(TRUE, actual_backup_name) /\ attempt' = attempt
           ELSE /\ attempt' = attempt + 1
                /\ cb_ret' = cb_ret
                /\ pc' = IF attempt + 1 < MaxAttempts THEN "cb_poll" ELSE "cb_diag"
    /\ UNCHANGED <<devVars, opVars, sideVars, delVars, comment, backup_base_name, poll_i, mgrVars,
                   result, sent>>

\* lines 136-141: the polls are exhausted; the backups are listed for the log
CbDiagnose ==
    /\ pc = "cb_diag"
    /\ CbReturns(FALSE, "")
    /\ UNCHANGED <<devVars, opVars, sideVars, delVars, comment, backup_base_name, attempt, poll_i,
                   mgrVars, result, sent, seen>>

\* create_backup returns to its caller
CreateBackupReturn ==
    /\ pc = "cb_ret"
    /\ op = "create"
    /\ Return([ok |-> cb_ret.ok, kind |-> "backup", count |-> 0, name |-> cb_ret.name])
    /\ UNCHANGED <<devVars, opVars, sideVars, sent, seen>>

---------------------------------------------------------------------------
(* MikroTikUpdater.install_update (src/core/updater.py) *)

\* the polling loop as it would be with one query more
OnePollMore == 30 + 1

\* range(30) of the download polling loop
DownloadPolls == 30

\* line 124: install_update starts with create_backup(device_name, "before_update")
StartInstallUpdate == Begin("install", "del_list", "before_update", FALSE)

\* install_update as it would be if it went on whatever create_backup returned
BackupIgnored(backup_success) == FALSE

\* line 126: the test made on what create_backup returned
BackupFailed(backup_success) == ~backup_success

\* lines 124-134: create_backup has returned (backup_success, backup_name); its
\* own locals are gone
IuAfterBackup ==
    /\ pc = "cb_ret"
    /\ op = "install"
    /\ IF BackupFailed(cb_ret.ok)
       THEN Return(Failure("backup_failed", ""))
       ELSE /\ Goto("iu_download")
            /\ backup_base_name' = "" /\ attempt' = 0
            /\ UNCHANGED <<delVars, comment, cb_ret, poll_i, mgrVars>>
    /\ UNCHANGED <<devVars, opVars, sideVars, sent, seen>>

\* lines 136-147: the download command; line 199: any exception is a failure
IuDownload ==
    /\ pc = "iu_download"
    /\ \E t \in Transports : \E kind \in StderrRead(t) :
        /\ sent' = Send("download", t)
        /\ seen' = seen \cup (IF kind \in ErrorKinds THEN {"download_error"} ELSE {})
        /\ IF Raises(t) THEN Return(Failure("critical", cb_ret.name))
           ELSE IF StderrHasError(Stderr(kind)) THEN Return(Failure("download_error", cb_ret.name))
           ELSE /\ Goto("iu_poll")
                /\ poll_i' = 0
                /\ UNCHANGED <<delVars, cbVars, mgrVars>>
    /\ UNCHANGED <<devVars, opVars, sideVars>>

\* the test of line 160 as it would be if any status line counted
AnyStatusComplete(status_output) ==
    \E k \in 1..Len(status_output) : Contains(Lower(status_output[k]), "status: ")

\* line 160: any('status: downloaded' in line.lower() for line in status_output)
DownloadComplete(status_output) ==
    \E k \in 1..Len(status_output) : Contains(Lower(status_output[k]), "status: downloaded")

\* line 164: any('error' in line.lower() for line in status_output)
DownloadError(status_output) ==
    \E k \in 1..Len(status_output) : Contains(Lower(status_output[k]), "error")

\* lines 153-179: one status query of the loop, and the timeout after the last
IuPoll ==
    /\ pc = "iu_poll"
    /\ poll_i < DownloadPolls
    /\ \E t \in Transports : \E kind \in StatusRead(t) :
        LET status_output == StatusOutput(kind) IN
        /\ seen' = seen \cup (IF t = "ok" /\ kind \in ShowsDownloaded THEN {"downloaded"} ELSE {})
                        \cup (IF t = "ok" /\ kind \in ShowsError THEN {"poll_error"} ELSE {})
        /\ IF Raises(t)
           THEN Return(Failure("critical", cb_ret.name))
           ELSE IF DownloadComplete(status_output)
           THEN Goto("iu_install") /\ UNCHANGED <<delVars, cbVars, poll_i, mgrVars>>
           ELSE IF DownloadError(status_output)
           THEN Return(Failure("poll_error", cb_ret.name))
           ELSE IF poll_i + 1 < DownloadPolls
           THEN Goto("iu_poll") /\ poll_i' = poll_i + 1 /\ UNCHANGED <<delVars, cbVars, mgrVars>>
           ELSE Return(Failure("timeout", cb_ret.name))
    /\ UNCHANGED <<devVars, opVars, sideVars, sent>>

\* lines 181-197: the install command
IuInstall ==
    /\ pc = "iu_install"
    /\ \E t \in Transports : \E kind \in StderrRead(t) :
        /\ sent' = Send("install", t)
        /\ seen' = seen \cup (IF kind \in ErrorKinds THEN {"install_error"} ELSE {})
                        \cup (IF Raises(t) THEN {"install_raised"} ELSE {})
        /\ IF Raises(t) THEN Return(Failure("critical", cb_ret.name))
           ELSE IF StderrHasError(Stderr(kind)) THEN Return(Failure("install_error", cb_ret.name))
           ELSE Return(Success("installed", cb_ret.name))
    /\ UNCHANGED <<devVars, opVars, sideVars>>

---------------------------------------------------------------------------
(* The names of the backups, for any comment *)

CommentHeads == <<"", "daily", "a-b", "??", "before_update">>
CommentMiddles == <<"", " ", "_", " update", ".">>
CommentTails == <<"", "!!", "2026", "_long_comment_text">>

\* comments of every kind: empty, short, longer than the ten characters that
\* are kept, with punctuation inside, made of punctuation only
CommentTexts ==
    {CommentHeads[h] \o CommentMiddles[m] \o CommentTails[t] :
        h \in 1..Len(CommentHeads), m \in 1..Len(CommentMiddles), t \in 1..Len(CommentTails)}

\* backup_manager.py, line 108: self._generate_short_backup_name(comment)
GenerateShortBackupName ==
    /\ pc = "idle"
    /\ \E c \in CommentTexts : \E k \in 1..Len(Timestamps) :
        /\ comment' = c
        /\ backup_base_name' = ShortBackupName(Timestamps[k], c)
    /\ op' = "generate_short_backup_name"
    /\ pc' = "done"
    /\ UNCHANGED <<devVars, nOps, prevOp, delVars, attempt, cb_ret, poll_i, mgrVars, result, sent,
                   seen, sideVars>>

\* mikrotik_manager.py, lines 227-232: the name create_backup makes when it
\* is given none
MgrGenerateBackupName ==
    /\ pc = "idle"
    /\ \E k \in 1..Len(Timestamps) :
        backup_base_name' = Prefix(MgrBackupName(Timestamps[k]), 8)
    /\ op' = "mgr_backup_name"
    /\ pc' = "done"
    /\ UNCHANGED <<devVars, nOps, prevOp, delVars, comment, attempt, cb_ret, poll_i, mgrVars,
                   result, sent, seen, sideVars>>

---------------------------------------------------------------------------
(* TaskScheduler.task_auto_update (src/core/scheduler.py): one device's turn *)

\* lines 228-235: the turn of a device starts with
\* create_backup(device_name, "auto_update"); the turn takes two operations,
\* this one and install_update
StartAutoUpdate ==
    /\ pc \in {"idle", "done"}
    /\ cycle.phase \in {"", "ended"}
    /\ nOps + 1 < MaxOps
    /\ nOps' = nOps + 1
    /\ op' = "auto_update" /\ prevOp' = op
    /\ pc' = "del_list"
    /\ backups' = <<>> /\ idx' = 0 /\ deleted_count' = 0
    /\ comment' = "auto_update" /\ backup_base_name' = "" /\ attempt' = 0 /\ cb_ret' = NoReturn
    /\ poll_i' = 0
    /\ with_backup' = FALSE /\ backup_result' = "" /\ update_result' = ""
    /\ result' = NoResult
    /\ sent' = {}
    /\ seen' = {}
    /\ cycle' = [phase |-> "backup", backup_name |-> "", status |-> ""]
    /\ UNCHANGED <<devVars, sessions, batchVars, cmpVars, otherVars>>

\* the turn of the device is over with this status
Ended(status, backup_name) ==
    [phase |-> "ended", backup_name |-> backup_name, status |-> status]

\* lines 235-243: create_backup has returned (backup_success, backup_name)
AuAfterBackup ==
    /\ pc = "cb_ret"
    /\ op = "auto_update"
    /\ IF ~cb_ret.ok
       THEN /\ Return(Failure("backup_failed", ""))
            /\ cycle' = Ended("backup_failed", "")
       ELSE /\ Goto("au_check")
            /\ cycle' = [cycle EXCEPT !.backup_name = cb_ret.name]
            /\ backup_base_name' = "" /\ attempt' = 0
            /\ UNCHANGED <<delVars, comment, cb_ret, poll_i, mgrVars>>
    /\ UNCHANGED <<devVars, opVars, sent, seen, sessions, batchVars, cmpVars, otherVars>>

\* lines 245-258: updater.check_for_updates, whose commands change nothing on
\* the device; without an update the turn ends as 'no_update', with one
\* install_update is called
AuCheck ==
    /\ pc = "au_check"
    /\ \E available \in BOOLEAN :
        IF ~available
        THEN /\ Return(Success("no_update", cycle.backup_name))
             /\ cycle' = Ended("no_update", cycle.backup_name)
             /\ UNCHANGED <<opVars, sent, seen>>
        ELSE /\ nOps' = nOps + 1
             /\ op' = "install" /\ prevOp' = op
             /\ pc' = "del_list"
             /\ backups' = <<>> /\ idx' = 0 /\ deleted_count' = 0
             /\ comment' = "before_update" /\ backup_base_name' = "" /\ attempt' = 0
             /\ cb_ret' = NoReturn
             /\ poll_i' = 0
             /\ UNCHANGED <<mgrVars, result>>
             /\ sent' = {}
             /\ seen' = {}
             /\ cycle' = [cycle EXCEPT !.phase = "install"]
    /\ UNCHANGED <<devVars, sessions, batchVars, cmpVars, otherVars>>

\* lines 260-278: install_update has returned; 'updated' and 'failed' carry
\* the backup_name of line 235 as backup_file
AuOutcome ==
    /\ pc = "done"
    /\ op = "install"
    /\ cycle.phase = "install"
    /\ cycle' = Ended(IF result.ok THEN "updated" ELSE "failed", cycle.backup_name)
    /\ UNCHANGED <<devVars, opVars, pc, delVars, cbVars, poll_i, mgrVars, result, sent, seen>>
    /\ UNCHANGED <<sessions, batchVars, cmpVars, otherVars>>

---------------------------------------------------------------------------
(* MikroTikManager (src/mikrotik_manager.py): the update with its backup *)

\* routes.py, line 396: perform_update_with_backup(device, create_backup=True)
StartMgrUpdateWithBackup == Begin("update_with_backup", "mb_connect", "", TRUE)

\* routes.py, line 398: perform_update(device)
StartMgrUpdate == Begin("update", "mu_connect", "", FALSE)

\* create_backup, lines 222-224: the session opens, or none does and the status
\* is 'error'
MgrBackupConnect ==
    /\ pc = "mb_connect"
    /\ \E up \in BOOLEAN :
        IF up THEN Goto("mb_save") /\ backup_result' = backup_result /\ sessions' = sessions + 1
              ELSE Goto("mu_connect") /\ backup_result' = "error" /\ sessions' = sessions
    /\ UNCHANGED <<devVars, opVars, batchVars, cmpVars, runVars, delVars, cbVars, poll_i, with_backup,
                   update_result, sent, seen>>

\* create_backup, lines 238-246: the status made of the result of the save command
MgrBackupStatus(success) == IF success THEN "success" ELSE "error"

\* create_backup, lines 233-246: the save command, after which the session is
\* closed (line 236); its stderr is not read
MgrBackupSave ==
    /\ pc = "mb_save"
    /\ \E t \in Transports : \E kind \in StderrRead(t) : \E written \in SaveEffects(t) :
        /\ pending' = IF written
                      THEN pending \cup {MgrBackupName(Timestamps[clock]) \o ".backup"}
                      ELSE pending
        /\ sent' = Send("save", t)
        /\ seen' = seen \cup (IF kind \in ErrorKinds THEN {"save_error"} ELSE {})
        /\ backup_result' = MgrBackupStatus(~Raises(t))
    /\ sessions' = sessions - 1
    /\ Goto("mu_connect")
    /\ UNCHANGED <<files, clock, opVars, batchVars, cmpVars, runVars, delVars, cbVars, poll_i, with_backup,
                   update_result>>

\* perform_update has its status; line 557: the cleanup follows a backup
MgrUpdateDone(status) ==
    IF with_backup
    THEN /\ Goto("mc_cleanup")
         /\ update_result' = status
         /\ UNCHANGED <<delVars, cbVars, poll_i, with_backup, backup_result>>
    ELSE Return(IF status = "success" THEN Success("update", "") ELSE Failure("update", ""))

\* perform_update, lines 168-170: the session of the update; lines 548-554 make
\* no test on backup_result before it
MgrUpdateConnect ==
    /\ pc = "mu_connect"
    /\ \E up \in BOOLEAN :
        IF up THEN /\ Goto("mu_download")
                   /\ sessions' = sessions + 1
                   /\ UNCHANGED <<delVars, cbVars, poll_i, mgrVars>>
              ELSE MgrUpdateDone("error") /\ sessions' = sessions
    /\ UNCHANGED <<devVars, opVars, batchVars, cmpVars, runVars, sent, seen>>

\* perform_update, line 174: the download command; its result is not read
MgrDownload ==
    /\ pc = "mu_download"
    /\ \E t \in Transports : sent' = Send("download", t)
    /\ Goto("mu_status")
    /\ UNCHANGED <<devVars, opVars, sideVars, delVars, cbVars, poll_i, mgrVars, seen>>

\* perform_update, line 181: the status query, made once; its result is not read
MgrStatus ==
    /\ pc = "mu_status"
    /\ \E t \in Transports : \E kind \in StatusRead(t) :
        seen' = seen \cup (IF t = "ok" /\ kind \in ShowsDownloaded THEN {"downloaded"} ELSE {})
    /\ Goto("mu_install")
    /\ UNCHANGED <<devVars, opVars, sideVars, delVars, cbVars, poll_i, mgrVars, sent>>

\* perform_update, lines 188-194: the status returned after the three commands
MgrUpdateStatus(download_result, status_result, install_result) == "success"

\* perform_update, lines 184-194: the install command; the session is closed
\* (line 186)
MgrInstall ==
    /\ pc = "mu_install"
    /\ \E t \in Transports : \E kind \in StderrRead(t) :
        /\ sent' = Send("install", t)
        /\ seen' = seen \cup (IF kind \in ErrorKinds THEN {"install_error"} ELSE {})
                        \cup (IF Raises(t) THEN {"install_raised"} ELSE {})
        /\ MgrUpdateDone(MgrUpdateStatus("downloaded" \in seen, TRUE, ~Raises(t)))
    /\ sessions' = sessions - 1
    /\ UNCHANGED <<devVars, opVars, batchVars, cmpVars, runVars>>

---------------------------------------------------------------------------
(* MikroTikManager.delete_old_backups(device, keep_count): the cleanup *)

\* str.split(): the maximal runs of characters that are not whitespace
SplitWhitespace(s) ==
    LET RECURSIVE Walk(_, _)
        Walk(i, cur) ==
            IF i > Len(s) THEN (IF cur # "" THEN <<cur>> ELSE <<>>)
            ELSE IF IsSpace(Char(s, i))
            THEN (IF cur # "" THEN <<cur>> ELSE <<>>) \o Walk(i + 1, "")
            ELSE Walk(i + 1, cur \o Char(s, i))
    IN  Walk(1, "")

\* part.split('=')[1], for a part that holds '='
AfterEquals(part) ==
    LET first == Min({i \in 1..Len(part) : Char(part, i) = "="})
        rest  == SubSeq(part, first + 1, Len(part))
        stops == {i \in 1..Len(rest) : Char(rest, i) = "="}
    IN  IF stops = {} THEN rest ELSE SubSeq(rest, 1, Min(stops) - 1)

\* str.strip('"')
StripQuotes(s) ==
    LET kept == {i \in 1..Len(s) : Char(s, i) # "\""}
    IN  IF kept = {} THEN "" ELSE SubSeq(s, Min(kept), Max(kept))

\* str.replace(old, ''), old not empty
RemoveAll(s, old) ==
    LET RECURSIVE Walk(_)
        Walk(i) ==
            IF i > Len(s) THEN ""
            ELSE IF StartsAt(s, old, i) THEN Walk(i + Len(old))
            ELSE Char(s, i) \o Walk(i + 1)
    IN  Walk(1)

\* lines 471-478: the backup_name read from one line of the listing, or ""
MgrNameIn(line) ==
    LET parts == SplitWhitespace(line)
        named == {k \in 1..Len(parts) : StartsWith(parts[k], "name=")}
    IN  IF Contains(line, ".backup") /\ Len(parts) >= 5 /\ named # {}
        THEN StripQuotes(AfterEquals(parts[Min(named)]))
        ELSE ""

DigitValue(c) == (CHOOSE i \in 1..10 : Char(Digits, i) = c) - 1

IsDigits(s) == s # "" /\ \A i \in 1..Len(s) : InStr(Char(s, i), Digits)

\* the half minutes since midnight of the time in hhmm
HalfMinutes(hhmm) ==
    2 * (60 * (10 * DigitValue(Char(hhmm, 1)) + DigitValue(Char(hhmm, 2)))
         + 10 * DigitValue(Char(hhmm, 3)) + DigitValue(Char(hhmm, 4)))

\* strptime(today + "_" + time_str, "%Y%m%d_%H%M") succeeds
IsHourMinute(time_str) ==
    /\ Len(time_str) = 4
    /\ 10 * DigitValue(Char(time_str, 1)) + DigitValue(Char(time_str, 2)) <= 23
    /\ DigitValue(Char(time_str, 3)) <= 5

\* lines 482-502: the date a backup is sorted by, in half minutes of today:
\* the time in the name, datetime.now() (between two minutes), or datetime.min
\* (-1) when strptime raises, as it does for every name of the old format, the
\* last piece of a split at '_' holding no '_' for "%Y%m%d_%H%M%S" to match
MgrDate(backup_name, now) ==
    LET date_str == RemoveAll(backup_name, ".backup")
    IN  IF Len(date_str) = 8 /\ Char(date_str, 1) = "b"
        THEN LET time_str == SubSeq(date_str, 5, 8)
             IN  IF IsDigits(time_str)
                 THEN (IF IsHourMinute(time_str) THEN HalfMinutes(time_str) ELSE -1)
                 ELSE HalfMinutes(HourMinute(now)) + 1
        ELSE -1

\* lines 467-502: the (date, backup_name) pairs parsed from the listing
MgrParseBackups(lines, now) ==
    LET RECURSIVE Walk(_)
        Walk(k) ==
            IF k > Len(lines) THEN <<>>
            ELSE LET backup_name == MgrNameIn(lines[k])
                 IN  (IF backup_name # ""
                      THEN << <<MgrDate(backup_name, now), backup_name>> >>
                      ELSE <<>>) \o Walk(k + 1)
    IN  Walk(1)

\* line 505: backups.sort(key=lambda x: x[0]), a stable sort
SortByDate(pairs) ==
    LET RECURSIVE Insert(_, _)
        Insert(sorted, x) ==
            IF sorted = <<>> THEN <<x>>
            ELSE IF x[1] < Head(sorted)[1] THEN <<x>> \o sorted
            ELSE <<Head(sorted)>> \o Insert(Tail(sorted), x)
        RECURSIVE Walk(_)
        Walk(k) == IF k = 0 THEN <<>> ELSE Insert(Walk(k - 1), pairs[k])
    IN  Walk(Len(pairs))

\* lines 509-510: the names of backups[:-keep_count] when there are more;
\* backups[:-0] is backups[:0], the empty list
ToDelete(sorted, keep_count) ==
    IF Len(sorted) > keep_count /\ keep_count # 0
    THEN {sorted[k][2] : k \in 1..(Len(sorted) - keep_count)}
    ELSE {}

\* '/file print where type="backup"': the rows of the files of that type
FilePrintWhereTypeBackup(fs) == FilePrint({f \in fs : EndsWith(f, ".backup")})

\* lines 452-528, called at line 558: the backups are listed, parsed and
\* sorted, and all but the last keep_count removed; the result is logged only,
\* and perform_update_with_backup returns update_result (line 561)
MgrCleanup ==
    /\ pc = "mc_cleanup"
    /\ \E up \in BOOLEAN : \E t \in Transports :
        LET listed    == up /\ ~Raises(t)
            to_delete == IF listed
                         THEN ToDelete(SortByDate(MgrParseBackups(
                                  FilePrintWhereTypeBackup(files), Timestamps[clock])), KeepCount)
                         ELSE {}
        IN  \E tried \in SUBSET to_delete : \E gone \in SUBSET tried :
                /\ files' = files \ gone
                /\ sent' = IF tried # {} THEN sent \cup {"remove"} ELSE sent
    /\ Return(IF update_result = "success" THEN Success("update", "") ELSE Failure("update", ""))
    /\ UNCHANGED <<pending, clock, opVars, sideVars, seen>>

\* the backups the device may hold when the cleanup is called on its own
CleanupFiles ==
    {"cfg.backup", "mum_old.backup", SavedFiles[1]}
        \cup {MgrSavedFiles[k] : k \in 1..Len(MgrSavedFiles)}

MaxKeep == 2

\* routes.py, line 507, with any keep_count: delete_old_backups(device,
\* keep_count) as a whole; a removal either takes the file away or fails
MgrDeleteOldBackups ==
    /\ pc = "idle"
    /\ op' = "mgr_delete_old_backups" /\ prevOp' = op /\ nOps' = nOps + 1
    /\ \E k \in 0..MaxKeep : \E up \in BOOLEAN : \E t \in Transports :
        LET listed    == up /\ ~Raises(t)
            to_delete == IF listed
                         THEN ToDelete(SortByDate(MgrParseBackups(
                                  FilePrintWhereTypeBackup(files), Timestamps[clock])), k)
                         ELSE {}
        IN  \E gone \in SUBSET to_delete :
                /\ keep' = k
                /\ files' = files \ gone
                /\ sent' = IF to_delete # {} THEN sent \cup {"remove"} ELSE sent
                /\ seen' = IF gone # to_delete THEN seen \cup {"remove_failed"} ELSE seen
                /\ Return(IF listed
                          THEN [ok |-> TRUE, kind |-> "cleaned", count |-> Cardinality(gone),
                                name |-> ""]
                          ELSE Failure("cleaned", ""))
    /\ UNCHANGED <<pending, clock, sessions, batchVars, cmpVars, cycle, reply, info, running, appVars>>

---------------------------------------------------------------------------
(* The sessions of the connector and of MikroTikManager's other operations *)

\* the operation goes on at label with its locals as they are
Stay(label) == Goto(label) /\ UNCHANGED <<delVars, cbVars, poll_i, mgrVars>>

\* connector.py, line 90: execute_command(device_name, command)
StartConnExecute == Begin("execute_command", "ce_connect", "", FALSE)

\* connector.py, line 91: connect raises, or the session is open
CeConnect ==
    /\ pc = "ce_connect"
    /\ \E up \in BOOLEAN :
        IF up THEN Stay("ce_exec") /\ sessions' = sessions + 1
              ELSE Return(Failure("raised", "")) /\ sessions' = sessions
    /\ UNCHANGED <<devVars, opVars, batchVars, cmpVars, runVars, sent, seen>>

\* connector.py, lines 93-101: the command and the reads, which may raise; the
\* finally clause closes the session
CeExec ==
    /\ pc = "ce_exec"
    /\ \E raised \in BOOLEAN :
        Return(IF raised THEN Failure("raised", "") ELSE Success("executed", ""))
    /\ sessions' = sessions - 1
    /\ UNCHANGED <<devVars, opVars, batchVars, cmpVars, runVars, sent, seen>>

\* connector.py, line 142: test_connection(device_name)
StartConnTest == Begin("test_connection", "ct_connect", "", FALSE)

\* connector.py, lines 143-148: connect raises and False is returned, or the
\* session is open
CtConnect ==
    /\ pc = "ct_connect"
    /\ \E up \in BOOLEAN :
        IF up THEN Stay("ct_close") /\ sessions' = sessions + 1
              ELSE Return(Failure("tested", "")) /\ sessions' = sessions
    /\ UNCHANGED <<devVars, opVars, batchVars, cmpVars, runVars, sent, seen>>

\* connector.py, lines 145-146: client.close() and True
CtClose ==
    /\ pc = "ct_close"
    /\ sessions' = sessions - 1
    /\ Return(Success("tested", ""))
    /\ UNCHANGED <<devVars, opVars, batchVars, cmpVars, runVars, sent, seen>>

\* MikroTikManager.get_system_info(device)
StartMgrSystemInfo == Begin("get_system_info", "gi_connect", "", FALSE)

\* get_system_info, lines 64-66, called on its own or by check_for_updates
\* (line 122), which then reads the status 'error'
GiConnect ==
    /\ pc = "gi_connect"
    /\ \E up \in BOOLEAN :
        IF up THEN Stay("gi_body") /\ sessions' = sessions + 1
        ELSE /\ sessions' = sessions
             /\ IF op = "check_for_updates"
                THEN Stay("cu_info_failed")
                ELSE Return(Failure("system_info", ""))
    /\ UNCHANGED <<devVars, opVars, batchVars, cmpVars, runVars, sent, seen>>

\* get_system_info, lines 68-107: the two commands, whose failures
\* execute_command turns into results, then ssh.close() and the status 'success'
GiBody ==
    /\ pc = "gi_body"
    /\ sessions' = sessions - 1
    /\ IF op = "check_for_updates"
       THEN Stay("cu_check")
       ELSE Return(Success("system_info", ""))
    /\ UNCHANGED <<devVars, opVars, batchVars, cmpVars, runVars, sent, seen>>

\* MikroTikManager.check_for_updates(device)
StartMgrCheckForUpdates == Begin("check_for_updates", "cu_connect", "", FALSE)

\* check_for_updates, lines 116-122: its own session, then get_system_info
CuConnect ==
    /\ pc = "cu_connect"
    /\ \E up \in BOOLEAN :
        IF up THEN Stay("gi_connect") /\ sessions' = sessions + 1
              ELSE Return(Failure("check", "")) /\ sessions' = sessions
    /\ UNCHANGED <<devVars, opVars, batchVars, cmpVars, runVars, sent, seen>>

\* check_for_updates as it would be without the ssh.close() of line 124
LeftOpen(n) == n

\* check_for_updates, line 124: ssh.close() before system_info is returned
CloseAfterInfoFailure(n) == n - 1

\* check_for_updates, lines 123-125: get_system_info gave no 'success'
CuInfoFailed ==
    /\ pc = "cu_info_failed"
    /\ sessions' = CloseAfterInfoFailure(sessions)
    /\ Return(Failure("info_failed", ""))
    /\ UNCHANGED <<devVars, opVars, batchVars, cmpVars, runVars, sent, seen>>

\* check_for_updates, lines 127-158: the two commands, ssh.close() and the
\* status 'success', whatever the commands gave
CuCheck ==
    /\ pc = "cu_check"
    /\ sessions' = sessions - 1
    /\ Return(Success("check", ""))
    /\ UNCHANGED <<devVars, opVars, batchVars, cmpVars, runVars, sent, seen>>

\* MikroTikManager.test_connection(device)
StartMgrTestConnection == Begin("mgr_test_connection", "tc_connect", "", FALSE)

\* test_connection, lines 202-204
TcConnect ==
    /\ pc = "tc_connect"
    /\ \E up \in BOOLEAN :
        IF up THEN Stay("tc_body") /\ sessions' = sessions + 1
              ELSE Return(Failure("tested", "")) /\ sessions' = sessions
    /\ UNCHANGED <<devVars, opVars, batchVars, cmpVars, runVars, sent, seen>>

\* test_connection, lines 206-214: the command, whose failure execute_command
\* turns into success=False, then ssh.close() and the status
TcBody ==
    /\ pc = "tc_body"
    /\ \E success \in BOOLEAN :
        Return(IF success THEN Success("tested", "") ELSE Failure("tested", ""))
    /\ sessions' = sessions - 1
    /\ UNCHANGED <<devVars, opVars, batchVars, cmpVars, runVars, sent, seen>>

\* MikroTikManager.list_backups(device)
StartMgrListBackups == Begin("mgr_list_backups", "lb_connect", "", FALSE)

\* list_backups, lines 254-256
LbConnect ==
    /\ pc = "lb_connect"
    /\ \E up \in BOOLEAN :
        IF up THEN Stay("lb_body") /\ sessions' = sessions + 1
              ELSE Return(Failure("listed", "")) /\ sessions' = sessions
    /\ UNCHANGED <<devVars, opVars, batchVars, cmpVars, runVars, sent, seen>>

\* list_backups, lines 258-391: the listing commands, ssh.close() at line 378
\* and the status 'success', with no backups when the commands failed
LbBody ==
    /\ pc = "lb_body"
    /\ sessions' = sessions - 1
    /\ Return(Success("listed", ""))
    /\ UNCHANGED <<devVars, opVars, batchVars, cmpVars, runVars, sent, seen>>

---------------------------------------------------------------------------
(* The batch runs: TaskScheduler's tasks, check_all_devices and the routes *)

\* self.connector.devices, and the rows of Device, in their order
ConfiguredOrder == <<"r1", "r2">>
Configured == {ConfiguredOrder[k] : k \in 1..Len(ConfiguredOrder)}

\* a name the configuration of the devices does not hold
NotConfigured == "r3"

MaxRequested == 2

SchedulerTasks == {"task_version_check", "task_auto_update", "task_create_backups"}
RouteTasks == {"batch_check", "execute_task"}
Tasks == {"check_all_devices"} \cup SchedulerTasks \cup RouteTasks

\* the tasks that test the connection before they work on a device
TestsConnection == {"check_all_devices", "task_version_check"}

\* the lists of distinct names of at most MaxRequested devices
DistinctLists ==
    {q \in UNION {[1..n -> Configured \cup {NotConfigured}] : n \in 0..MaxRequested} :
        \A i, j \in DOMAIN q : i # j => q[i] # q[j]}

\* what a run can be asked for: the 'devices' of the task's configuration,
\* the device_ids of the form or of the Task; check_all_devices takes no list
Requests(t) ==
    IF t = "check_all_devices" THEN {ConfiguredOrder}
    ELSE IF t \in SchedulerTasks THEN DistinctLists \cup {<<"all">>}
    ELSE DistinctLists

\* scheduler.py, lines 83-87: _get_devices_for_task; the other runs iterate
\* over what they were given
DevicesForTask(t, q) ==
    IF t \in SchedulerTasks
    THEN IF q = <<>> \/ q = <<"all">>
         THEN ConfiguredOrder
         ELSE SelectSeq(q, LAMBDA d : d \in Configured)
    ELSE q

\* the status recorded for a device, which does or does not answer; the
\* operations called return their failures and raise nothing, so the
\* handlers of scheduler.py lines 280 and 357 record no 'error'
Outcomes(t, isDown) ==
    CASE t = "check_all_devices" -> IF isDown THEN {"offline"} ELSE {"online"}
      [] t = "task_version_check" -> IF isDown THEN {"offline"} ELSE {"online", "error"}
      [] t = "task_auto_update" ->
            IF isDown THEN {"backup_failed"}
                      ELSE {"backup_failed", "no_update", "updated", "failed"}
      [] t = "task_create_backups" -> IF isDown THEN {"failed"} ELSE {"success", "failed"}
      [] OTHER -> IF isDown THEN {"error"} ELSE {"success", "error"}

FailureStatuses == {"offline", "error", "backup_failed", "failed"}

\* results[device_name] = {...}: the entry of a name is replaced
Put(res, d, s) ==
    IF \E i \in DOMAIN res : res[i].device = d
    THEN [i \in DOMAIN res |-> IF res[i].device = d THEN [device |-> d, status |-> s]
                                                    ELSE res[i]]
    ELSE Append(res, [device |-> d, status |-> s])

\* the result of one device is stored: in a dict by the scheduler and the
\* updater, in a list by the routes
Store(t, res, d, s) ==
    IF t \in RouteTasks THEN Append(res, [device |-> d, status |-> s]) ELSE Put(res, d, s)

\* a run that would stop at the first device that failed
AbortOnFailure(i, n, status) == IF status \in FailureStatuses THEN n + 1 ELSE i + 1

\* the for loop goes on with the next device, whatever the status was
AfterOutcome(i, n, status) == i + 1

\* a batch run starts: the list it iterates over, and the devices that do
\* not answer during the run
BatchStart ==
    /\ pc \in {"idle", "done"}
    /\ nOps < MaxOps
    /\ nOps' = nOps + 1
    /\ op' = "batch" /\ prevOp' = op
    /\ pc' = "batch_loop"
    /\ result' = NoResult
    /\ \E t \in Tasks : \E q \in Requests(t) :
        /\ task' = t
        /\ requested' = q
        /\ devices' = DevicesForTask(t, q)
    /\ down' \in SUBSET Configured
    /\ position' = 1
    /\ results' = <<>>
    /\ operated' = {}
    /\ UNCHANGED <<devVars, delVars, cbVars, poll_i, mgrVars, sent, seen, sessions, cmpVars, runVars>>

\* one turn of the loop, for devices[position]: the routes skip an id that
\* Device.query.get does not find; a task that tests the connection records
\* 'offline' and goes on; otherwise the operation is called on the device
BatchStep ==
    /\ pc = "batch_loop"
    /\ position \in 1..Len(devices)
    /\ LET d == devices[position]
           tested == task \in TestsConnection /\ d \in down
       IN IF task \in RouteTasks /\ d \notin Configured
          THEN /\ position' = position + 1
               /\ UNCHANGED <<results, operated>>
          ELSE \E status \in Outcomes(task, d \in down) :
                /\ results' = Store(task, results, d, status)
                /\ operated' = IF tested THEN operated ELSE operated \cup {d}
                /\ position' = AfterOutcome(position, Len(devices), status)
    /\ UNCHANGED <<devVars, opVars, pc, delVars, cbVars, poll_i, mgrVars, result, sent, seen>>
    /\ UNCHANGED <<sessions, task, requested, devices, down, cmpVars, runVars>>

\* the loop is over: the results are reported
BatchEnd ==
    /\ pc = "batch_loop"
    /\ position > Len(devices)
    /\ pc' = "done"
    /\ UNCHANGED <<devVars, opVars, delVars, cbVars, poll_i, mgrVars, result, sent, seen, sideVars>>

---------------------------------------------------------------------------
(* The threads that start batch runs *)

\* the jobs the schedule library holds (scheduler.py, setup_schedules)
ScheduledJobs ==
    {"task_version_check", "task_update_check", "task_auto_update", "task_create_backups"}

\* the choices 1-3 of the menu; choice 4 passes force=True, which
\* task_create_backups does not take, and raises before anything runs
ManualTasks == {"task_version_check", "task_update_check", "task_auto_update"}

\* the jobs of the web application, one per Task with a cron expression
WebJobs == {"task_1", "task_2"}

Workers == {"worker1", "worker2"}

\* thread th executes nothing else than t from now on
Runs(th, t) ==
    /\ running' = [running EXCEPT ![th] = t]
    /\ UNCHANGED <<devVars, opVars, pc, delVars, cbVars, poll_i, mgrVars, result, sent, seen>>
    /\ UNCHANGED <<sessions, batchVars, cmpVars, cycle, reply, info, keep, appVars>>

\* scheduler.py, lines 444-452: start_scheduler, once
StartScheduler ==
    /\ running["scheduler"] = "not started"
    /\ Runs("scheduler", "")

\* scheduler.py, lines 462-466: schedule.run_pending() calls a job that is
\* due, in the scheduler thread, and comes back when the job has returned
SchedulerRunPending ==
    /\ running["scheduler"] = ""
    /\ \E t \in ScheduledJobs : Runs("scheduler", t)

\* main.py, lines 416-453: the menu calls the task in the main thread
RunManualTask ==
    /\ running["main"] = ""
    /\ \E t \in ManualTasks : Runs("main", t)

\* routes.py, lines 684-698: the BackgroundScheduler calls task_wrapper in a
\* worker of its pool, for a job no instance of which is running
WebJobFires ==
    \E w \in Workers : \E j \in WebJobs :
        /\ running[w] = ""
        /\ \A v \in Workers : running[v] # j
        /\ Runs(w, j)

\* the batch run of a thread returns
TaskReturns ==
    \E th \in Threads :
        /\ running[th] \notin {"", "not started"}
        /\ Runs(th, "")

---------------------------------------------------------------------------
(* MikroTikUpdater._compare_versions (src/core/updater.py) *)

\* the version texts the comparator is given: what "/system resource print"
\* and "/system package update print" may hold after "version:"
VersionTexts ==
    {"6.49.6", "6.49.10", "6.49", "6.49.0", "7.1", "7", "", "  ", "6..1", "6.x",
     "7.1rc3", "7.2 (stable)", "+7", "1_0.1", "x", "6.49.", "7.2"}

\* str.split(sep) for a separator of one character
SplitAt(s, sep) ==
    LET RECURSIVE Walk(_, _)
        Walk(i, cur) ==
            IF i > Len(s) THEN <<cur>>
            ELSE IF Char(s, i) = sep THEN <<cur>> \o Walk(i + 1, "")
            ELSE Walk(i + 1, cur \o Char(s, i))
    IN  Walk(1, "")

\* the text without the sign int() allows in front
Unsigned(c) == IF c # "" /\ Char(c, 1) \in {"+", "-"} THEN SubSeq(c, 2, Len(c)) ELSE c

\* int(c) does not raise ValueError: an optional sign, then digits, which
\* single underscores may separate
IsIntLiteral(c) ==
    LET body == Unsigned(c)
    IN  /\ body # ""
        /\ \A i \in 1..Len(body) : InStr(Char(body, i), Digits) \/ Char(body, i) = "_"
        /\ Char(body, 1) # "_" /\ Char(body, Len(body)) # "_"
        /\ \A i \in 1..(Len(body) - 1) : ~(Char(body, i) = "_" /\ Char(body, i + 1) = "_")

\* int(c), for c that int() accepts
IntOf(c) ==
    LET body == Unsigned(c)
        RECURSIVE Value(_, _)
        Value(i, acc) ==
            IF i > Len(body) THEN acc
            ELSE IF Char(body, i) = "_" THEN Value(i + 1, acc)
            ELSE Value(i + 1, 10 * acc + DigitValue(Char(body, i)))
    IN  IF Char(c, 1) = "-" THEN 0 - Value(1, 0) ELSE Value(1, 0)

\* the default as it would be if an absent component counted as 1
PartAtOne(parts, i) == IF i <= Len(parts) THEN parts[i] ELSE 1

\* lines 27-28: parts[i] if i < len(parts) else 0, i counted from 1
PartAt(parts, i) == IF i <= Len(parts) THEN parts[i] ELSE 0

\* the loop as it would be over the components both sides have
ShorterLength(m, n) == IF m < n THEN m ELSE n

\* line 26: max(len(current_parts), len(latest_parts))
CompareLength(m, n) == IF m > n THEN m ELSE n

\* lines 20-35: the body of the try, giving "True", "False" or the exception
\* raised: IndexError by [0] on a text without a word, ValueError by int()
CompareBody(cur, lat) ==
    IF SplitWhitespace(cur) = <<>> \/ SplitWhitespace(lat) = <<>> THEN "IndexError"
    ELSE LET current_clean == SplitAt(Head(SplitWhitespace(cur)), ".")
             latest_clean  == SplitAt(Head(SplitWhitespace(lat)), ".")
         IN  IF \/ \E i \in 1..Len(current_clean) : ~IsIntLiteral(current_clean[i])
                \/ \E i \in 1..Len(latest_clean) : ~IsIntLiteral(latest_clean[i])
             THEN "ValueError"
             ELSE LET current_parts == [i \in 1..Len(current_clean) |-> IntOf(current_clean[i])]
                      latest_parts  == [i \in 1..Len(latest_clean) |-> IntOf(latest_clean[i])]
                      n == CompareLength(Len(current_parts), Len(latest_parts))
                      differ == {i \in 1..n : PartAt(latest_parts, i) # PartAt(current_parts, i)}
                  IN  IF differ = {} THEN "False"
                      ELSE IF PartAt(latest_parts, Min(differ)) > PartAt(current_parts, Min(differ))
                      THEN "True"
                      ELSE "False"

\* the handler as it would be if it caught ValueError alone
CaughtIfValueError(exception) == exception = "ValueError"

\* line 37: except Exception
Caught(exception) == TRUE

\* _compare_versions: the value returned, or "raised" when an exception leaves it
CompareVersions(cur, lat) ==
    LET outcome == CompareBody(cur, lat)
    IN  IF outcome \in {"IndexError", "ValueError"}
        THEN (IF Caught(outcome) THEN "False" ELSE "raised")
        ELSE outcome

\* the comparator is about to be called on two version texts
InitVersions ==
    /\ files = {}
    /\ current \in VersionTexts
    /\ latest \in VersionTexts
    /\ config = NoConfig
    /\ Quiet

\* check_for_updates, line 76: self._compare_versions(current_version, latest_version)
CompareVersionsCall ==
    /\ newer = "not called"
    /\ newer' = CompareVersions(current, latest)
    /\ UNCHANGED <<devVars, opVars, pc, delVars, cbVars, poll_i, mgrVars, result, sent, seen,
                   sessions, batchVars, current, latest, runVars>>

---------------------------------------------------------------------------
(* The parsers of the device's replies (src/core/connector.py,
   src/core/updater.py, src/mikrotik_manager.py) *)

\* a key the dict does not have, a group that did not match
Absent == "<absent>"

\* the default of the engine, 'Неизвестно', in Latin letters
Neizvestno == "Neizvestno"

\* the lines of one reply that the model draws
MaxLines == 2

\* str.strip()
Strip(s) ==
    LET kept == {i \in 1..Len(s) : ~IsSpace(Char(s, i))}
    IN  IF kept = {} THEN "" ELSE SubSeq(s, Min(kept), Max(kept))

\* line.split(key)[1] for a line that holds the key
SplitSecond(line, key) ==
    LET p    == Min({k \in 1..Len(line) : StartsAt(line, key, k)})
        rest == SubSeq(line, p + Len(key), Len(line))
        more == {k \in 1..Len(rest) : StartsAt(rest, key, k)}
    IN  IF more = {} THEN rest ELSE SubSeq(rest, 1, Min(more) - 1)

\* line.split(':', 1)[1] for a line that holds a colon
AfterColon(line) ==
    SubSeq(line, Min({k \in 1..Len(line) : Char(line, k) = ":"}) + 1, Len(line))

\* the branch of an if / elif chain of "key in line" tests a line takes, 0 for none
FirstKey(line, keys) ==
    LET hits == {j \in 1..Len(keys) : Contains(line, keys[j])}
    IN  IF hits = {} THEN 0 ELSE Min(hits)

\* connector.py 113-117: the loop that ends with break at the first line
\* that holds the key
FirstOfLoop(lines, key) ==
    LET hits == {k \in 1..Len(lines) : Contains(lines[k], key)}
    IN  IF hits = {} THEN Absent ELSE Strip(SplitSecond(lines[Min(hits)], key))

\* connector.py 119-133: a loop without break, every line of branch j
\* assigning the field again
LastOfChain(lines, keys, j) ==
    LET hits == {k \in 1..Len(lines) : FirstKey(lines[k], keys) = j}
    IN  IF hits = {} THEN Absent ELSE Strip(SplitSecond(lines[Max(hits)], keys[j]))

\* connector.py 121-126 and 130-133: the keys in the order of the chains
ResourceKeys    == <<"version:", "board-name:", "architecture-name:">>
RouterboardKeys == <<"model:", "serial-number:">>

\* updater.py 107-114: the keys in the order of the chain
UpdateKeys == <<"status:", "latest-version:", "installed-version:">>

\* MikroTikUpdater._parse_update_status
ParseUpdateStatus(lines) ==
    LET Branch(k) == FirstKey(Lower(lines[k]), UpdateKeys)
        Field(j) ==
            LET hits == {k \in 1..Len(lines) : Branch(k) = j}
            IN  IF hits = {} THEN Neizvestno ELSE Strip(AfterColon(lines[Max(hits)]))
    IN  [available       |-> \E k \in 1..Len(lines) :
                                Branch(k) = 1 /\ Contains(Lower(lines[k]), "update available"),
         status          |-> Field(1),
         latest_version  |-> Field(2),
         current_version |-> Field(3)]

RECURSIVE JoinLines(_)
\* the reply as one text, every line ended by a newline
JoinLines(lines) ==
    IF lines = <<>> THEN "" ELSE Head(lines) \o "\n" \o JoinLines(Tail(lines))

\* where \S+ matches after \s* from position i: first and last index, <<0, 0>> if nothing
NonSpaceRun(text, i) ==
    LET ns == {k \in i..Len(text) : ~IsSpace(Char(text, k))}
    IN  IF ns = {} THEN <<0, 0>>
        ELSE LET b  == Min(ns)
                 sp == {k \in b..Len(text) : IsSpace(Char(text, k))}
             IN  <<b, IF sp = {} THEN Len(text) ELSE Min(sp) - 1>>

\* re.search(key + r'\s*(\S+)', text, re.IGNORECASE).group(1) for a key in
\* lower case, Absent without a match
SearchKey(text, key) ==
    LET low    == Lower(text)
        starts == {p \in 1..Len(text) :
                      StartsAt(low, key, p) /\ NonSpaceRun(text, p + Len(key))[1] # 0}
    IN  IF starts = {} THEN Absent
        ELSE LET run == NonSpaceRun(text, Min(starts) + Len(key))
             IN  SubSeq(text, run[1], run[2])

\* where \d+ ends when matched at position i, 0 if it does not match
DigitsEnd(text, i) ==
    IF i > Len(text) \/ ~InStr(Char(text, i), Digits) THEN 0
    ELSE LET nd == {k \in i..Len(text) : ~InStr(Char(text, k), Digits)}
         IN  IF nd = {} THEN Len(text) ELSE Min(nd) - 1

\* where \d+\.\d+(?:\.\d+)? ends when matched at position i, 0 if it does not match
NumberEnd(text, i) ==
    LET d1 == DigitsEnd(text, i)
    IN  IF d1 = 0 \/ d1 + 1 > Len(text) \/ Char(text, d1 + 1) # "." THEN 0
        ELSE LET d2 == DigitsEnd(text, d1 + 2)
             IN  IF d2 = 0 THEN 0
                 ELSE IF d2 + 1 <= Len(text) /\ Char(text, d2 + 1) = "."
                         /\ DigitsEnd(text, d2 + 2) # 0
                 THEN DigitsEnd(text, d2 + 2)
                 ELSE d2

\* mikrotik_manager.py 77-79: re.search(r'RouterOS\s+(\d+\.\d+(?:\.\d+)?)', ...)
RosMatch(text) ==
    LET low == Lower(text)
        NumberAfter(p) ==
            LET b == NonSpaceRun(text, p + Len("routeros"))[1]
            IN  IF b > p + Len("routeros") /\ NumberEnd(text, b) # 0 THEN b ELSE 0
        starts == {p \in 1..Len(text) : StartsAt(low, "routeros", p) /\ NumberAfter(p) # 0}
    IN  IF starts = {} THEN Absent
        ELSE SubSeq(text, NumberAfter(Min(starts)), NumberEnd(text, NumberAfter(Min(starts))))

\* mikrotik_manager.py 81-83: re.search(r'(\d+\.\d+(?:\.\d+)?)\s*\(stable\)', output)
AnyVersion(text) ==
    LET Follows(e) ==
            LET b == NonSpaceRun(text, e + 1)[1]
            IN  b # 0 /\ StartsAt(text, "(stable)", b)
        starts == {p \in 1..Len(text) : NumberEnd(text, p) # 0 /\ Follows(NumberEnd(text, p))}
    IN  IF starts = {} THEN Absent ELSE SubSeq(text, Min(starts), NumberEnd(text, Min(starts)))

\* mikrotik_manager.py 72-83 and 104: the version of get_system_info
MgrVersion(text) ==
    IF SearchKey(text, "version:") # Absent THEN Strip(SearchKey(text, "version:"))
    ELSE IF RosMatch(text) # Absent THEN RosMatch(text)
    ELSE IF AnyVersion(text) # Absent THEN AnyVersion(text)
    ELSE "Unknown"

\* mikrotik_manager.py 86-89 and 93-97: a field whose default is 'unknown'
MgrField(text, key) ==
    IF SearchKey(text, key) # Absent THEN Strip(SearchKey(text, key)) ELSE "unknown"

\* lines that "/system identity print" may answer
IdentityLines == {"  name: MikroTik", "name: core"}

\* lines that "/system resource print" may answer
ResourceLines ==
    {"version: 6.49.7 (stable)", "architecture-name: arm", "  version: 7.1",
     " board-name: hAP", "architecture-name: x86", "uptime: 1d", "RouterOS 6.48.1",
     "7.2 (stable)"}

\* lines that "/system routerboard print" may answer
RouterboardLines == {"  model: RB750", "model: hEX", "serial-number: AB12", "serial-number: CD34"}

\* lines that "/system package update print" may answer
UpdateLines ==
    {"channel: stable", "installed-version: 7.1", "latest-version: 7.2",
     "  latest-version: 7.3", "status: New version is available",
     "status: System is already up to date", "Status: update available"}

\* the replies of at most MaxLines lines
Outputs(lines) == UNION {[1..n -> lines] : n \in 0..MaxLines}

\* what a parser leaves alone
notParsed == <<devVars, nOps, prevOp, delVars, cbVars, poll_i, mgrVars, result, sent, seen,
               sessions, batchVars, cmpVars, cycle, running, keep, appVars>>

\* connector.py 111: info = {}
EmptyInfo(parser) ==
    [parser |-> parser, identity |-> Absent, version |-> Absent, board |-> Absent,
     architecture |-> Absent, model |-> Absent, serial |-> Absent, error |-> Absent]

\* the position from which the next command is sent, once a reply is parsed
AfterParsed ==
    [gri_identity_parsed |-> "gri_version", gri_version_parsed |-> "gri_routerboard",
     gsi_resource_parsed |-> "gsi_identity"]

\* connector.py 119 and 128, mikrotik_manager.py 92: the next command is sent,
\* its reply will take the place of the last one
NextCommand ==
    /\ pc \in DOMAIN AfterParsed
    /\ pc' = AfterParsed[pc]
    /\ reply' = <<>>
    /\ UNCHANGED <<notParsed, op, info>>

\* get_routeros_info, lines 113-117: the identity
GriIdentity ==
    /\ pc = "idle"
    /\ \E o \in Outputs(IdentityLines) :
        /\ reply' = o
        /\ info' = [EmptyInfo("get_routeros_info") EXCEPT !.identity = FirstOfLoop(o, "name:")]
    /\ op' = "get_routeros_info"
    /\ pc' = "gri_identity_parsed"
    /\ UNCHANGED notParsed

\* get_routeros_info, lines 119-126: version, board and architecture
GriVersion ==
    /\ pc = "gri_version"
    /\ \E o \in Outputs(ResourceLines) :
        /\ reply' = o
        /\ info' = [info EXCEPT !.version = LastOfChain(o, ResourceKeys, 1),
                                !.board = LastOfChain(o, ResourceKeys, 2),
                                !.architecture = LastOfChain(o, ResourceKeys, 3)]
    /\ pc' = "gri_version_parsed"
    /\ UNCHANGED <<notParsed, op>>

\* get_routeros_info, lines 128-135: model and serial number, then return info
GriRouterboard ==
    /\ pc = "gri_routerboard"
    /\ \E o \in Outputs(RouterboardLines) :
        /\ reply' = o
        /\ info' = [info EXCEPT !.model = LastOfChain(o, RouterboardKeys, 1),
                                !.serial = LastOfChain(o, RouterboardKeys, 2)]
    /\ pc' = "done"
    /\ UNCHANGED <<notParsed, op>>

\* get_routeros_info, lines 137-140: a command raised, {'error': str(e)} is returned
GriError ==
    /\ pc \in {"idle", "gri_version", "gri_routerboard"}
    /\ reply' = <<>>
    /\ info' = [EmptyInfo("get_routeros_info") EXCEPT !.error = "error"]
    /\ op' = "get_routeros_info"
    /\ pc' = "done"
    /\ UNCHANGED notParsed

\* MikroTikManager.get_system_info, lines 70-89: version and architecture
GsiResource ==
    /\ pc = "idle"
    /\ \E o \in Outputs(ResourceLines) :
        /\ reply' = o
        /\ info' = [EmptyInfo("get_system_info") EXCEPT
                        !.version = MgrVersion(JoinLines(o)),
                        !.architecture = MgrField(JoinLines(o), "architecture-name:")]
    /\ op' = "get_system_info"
    /\ pc' = "gsi_resource_parsed"
    /\ UNCHANGED notParsed

\* MikroTikManager.get_system_info, lines 92-107: the identity, then the dict
GsiIdentity ==
    /\ pc = "gsi_identity"
    /\ \E o \in Outputs(IdentityLines), success \in BOOLEAN :
        /\ reply' = o
        /\ info' = [info EXCEPT !.identity = IF success THEN MgrField(JoinLines(o), "name:")
                                             ELSE "unknown"]
    /\ pc' = "done"
    /\ UNCHANGED <<notParsed, op>>

\* MikroTikUpdater._parse_update_status on a reply
ParseUpdateStatusCall ==
    /\ pc = "idle"
    /\ \E o \in Outputs(UpdateLines) :
        /\ reply' = o
        /\ info' = [parser |-> "_parse_update_status"] @@ ParseUpdateStatus(o)
    /\ op' = "_parse_update_status"
    /\ pc' = "done"
    /\ UNCHANGED notParsed

\* the versions a device reports as installed
InstalledVersions == {"7.1", "7.2", "6.49.7 (stable)"}

\* what a check for updates leaves alone
notChecked == <<devVars, nOps, prevOp, delVars, cbVars, poll_i, mgrVars, result, sent, seen,
                sessions, batchVars, cycle, running, keep, appVars>>

\* updater.py 74-76: update_available
UpdateAvailable(current_version, latest_version) ==
    IF latest_version # Neizvestno /\ current_version # Neizvestno
    THEN CompareVersions(current_version, latest_version) = "True"
    ELSE FALSE

\* MikroTikUpdater.check_for_updates, lines 51-86: the current version as
\* get_current_version gives it, the reply to "/system package update print"
UpdaterCheckForUpdates ==
    /\ pc = "idle"
    /\ \E version \in InstalledVersions \cup {Neizvestno}, o \in Outputs(UpdateLines) :
        /\ reply' = o
        /\ current' = version
        /\ latest' = ParseUpdateStatus(o).latest_version
        /\ newer' = IF latest' # Neizvestno /\ version # Neizvestno
                     THEN CompareVersions(version, latest') ELSE "not called"
        /\ info' = [parser |-> "check_for_updates",
                    available |-> UpdateAvailable(version, latest'),
                    current_version |-> version,
                    latest_version |-> latest',
                    status |-> ParseUpdateStatus(o).status]
    /\ op' = "check_for_updates"
    /\ pc' = "done"
    /\ UNCHANGED notChecked

\* MikroTikUpdater.check_for_updates, lines 88-95: a command raised
UpdaterCheckFails ==
    /\ pc = "idle"
    /\ \E version \in InstalledVersions \cup {Neizvestno} :
        /\ current' = version
        /\ info' = [parser |-> "check_for_updates", available |-> FALSE,
                    current_version |-> "error", latest_version |-> "error",
                    status |-> "error"]
    /\ reply' = <<>>
    /\ op' = "check_for_updates"
    /\ pc' = "done"
    /\ UNCHANGED <<notChecked, latest, newer>>

\* mikrotik_manager.py 138-149: has_updates and update_status from the text
\* of the reply
MgrUpdateState(check_output) ==
    IF Contains(Lower(check_output), "status: new version is available")
    THEN [has_updates |-> TRUE, update_status |-> "available"]
    ELSE IF Contains(Lower(check_output), "already have latest")
    THEN [has_updates |-> FALSE, update_status |-> "latest"]
    ELSE IF Contains(Lower(check_output), "checking for updates")
    THEN [has_updates |-> FALSE, update_status |-> "checking"]
    ELSE [has_updates |-> FALSE, update_status |-> "unknown"]

\* MikroTikManager.check_for_updates, lines 122-159: the version of
\* get_system_info, the reply to "/system package update check-for-updates"
MgrCheckResult ==
    /\ pc = "idle"
    /\ \E version \in InstalledVersions \cup {"Unknown"}, o \in Outputs(UpdateLines) :
        /\ reply' = o
        /\ current' = version
        /\ info' = [parser |-> "mgr_check_for_updates", status |-> "success",
                    current_version |-> version] @@ MgrUpdateState(JoinLines(o))
    /\ op' = "mgr_check_for_updates"
    /\ pc' = "done"
    /\ UNCHANGED <<notChecked, latest, newer>>

\* MikroTikManager.check_for_updates, lines 116-118, 123-125 and 161-163:
\* no connection, no system information, or a command raised
MgrCheckFails ==
    /\ pc = "idle"
    /\ reply' = <<>>
    /\ info' = [parser |-> "mgr_check_for_updates", status |-> "error",
                current_version |-> Absent, has_updates |-> FALSE, update_status |-> Absent]
    /\ op' = "mgr_check_for_updates"
    /\ pc' = "done"
    /\ UNCHANGED <<notChecked, cmpVars>>

---------------------------------------------------------------------------
(* The scheduler of the console program: start_scheduler, stop_scheduler and
   the _scheduler_loop threads (src/core/scheduler.py, src/main.py) *)

\* the threads start_scheduler may create in a run of the model
MaxStarts == 3

\* what the scheduler's starts and stops leave alone
notLoop == <<devVars, opVars, pc, delVars, cbVars, poll_i, mgrVars, result, sent, seen,
             sessions, batchVars, cmpVars, cycle, reply, info, running, keep, gateVars, taskVars,
             userVars>>

\* main.py 340-342, scheduler.py 387-452: setup_schedules registers the jobs
\* again, then start_scheduler returns at once if is_running, and otherwise
\* sets it and starts a new thread on _scheduler_loop
ManageStart ==
    /\ is_running \/ Len(loops) < MaxStarts
    /\ registered' = ScheduledJobs
    /\ IF is_running
       THEN UNCHANGED <<is_running, loops>>
       ELSE /\ is_running' = TRUE
            /\ loops' = Append(loops, "test")
    /\ UNCHANGED notLoop

\* scheduler.py 456-460: stop_scheduler
StopScheduler ==
    /\ is_running' = FALSE
    /\ registered' = {}
    /\ UNCHANGED <<notLoop, loops>>

\* thread th moves to position p
LoopGoes(th, p) ==
    /\ loops' = [loops EXCEPT ![th] = p]
    /\ UNCHANGED <<notLoop, is_running, registered>>

\* the loop as it would be with "while True"
LoopForever(th) ==
    /\ loops[th] = "test"
    /\ LoopGoes(th, "run_pending")

\* scheduler.py 463: while self.is_running
LoopTest(th) ==
    /\ loops[th] = "test"
    /\ LoopGoes(th, IF is_running THEN "run_pending" ELSE "exited")

\* scheduler.py 465: schedule.run_pending() calls a job that is due, or finds none
LoopRunPending(th) ==
    /\ loops[th] = "run_pending"
    /\ \/ registered # {} /\ LoopGoes(th, "job")
       \/ LoopGoes(th, "sleep")

\* scheduler.py 465-469: the job returns or raises, then time.sleep
LoopJobEnds(th) ==
    /\ loops[th] = "job"
    /\ LoopGoes(th, "sleep")

\* scheduler.py 466 and 469: the sleep ends, the condition is tested again
LoopWakes(th) ==
    /\ loops[th] = "sleep"
    /\ LoopGoes(th, "test")

\* one step of thread th
LoopStep(th) ==
    /\ th \in 1..Len(loops)
    /\ \/ LoopTest(th)
       \/ LoopRunPending(th)
       \/ LoopJobEnds(th)
       \/ LoopWakes(th)

---------------------------------------------------------------------------
(* The schedule and the day gate of a task (src/core/scheduler.py) *)

\* strftime("%A").lower()
Weekdays == {"monday", "tuesday", "wednesday", "thursday", "friday", "saturday", "sunday"}

\* the entries a 'days' list of scheduler.yaml may hold
DayEntries == {"monday", "Tuesday", "sunday", "everyday"}

\* the entries of a 'days' list in the model
MaxDays == 2

\* the 'days' lists of the model
DaysLists == UNION {[1..n -> DayEntries] : n \in 0..MaxDays}

\* _should_run_today, lines 76-81, on the weekday w
ShouldRunToday(days, w) ==
    IF days = <<>> THEN TRUE
    ELSE \E k \in 1..Len(days) : Lower(days[k]) = w

\* setup_schedules, lines 421-429: the weekdays on which the job of a task
\* with this 'days' list fires
FiresOn(days) ==
    IF days = <<>> \/ \E k \in 1..Len(days) : days[k] = "everyday"
    THEN Weekdays
    ELSE {Lower(days[k]) : k \in 1..Len(days)}

\* what the schedule and its gate leave alone
notGate == <<devVars, opVars, pc, delVars, cbVars, poll_i, mgrVars, result, sent, seen,
             sessions, batchVars, cmpVars, cycle, reply, info, running, keep, loopVars, taskVars,
             userVars>>

\* setup_schedules, lines 387-442, for one task: schedule.clear(), then the
\* jobs of the task if it is enabled
SetupSchedules ==
    /\ job_days' = IF config.enabled THEN FiresOn(config.days) ELSE {}
    /\ today' = "" /\ executed' = "not fired"
    /\ UNCHANGED <<notGate, config>>

\* the schedule module fires the job on one of its weekdays, and the body of
\* the task (lines 210-218) returns early or goes on
JobFires ==
    /\ \E w \in job_days :
        /\ today' = w
        /\ executed' = IF ~config.enabled THEN "not enabled"
                        ELSE IF ~ShouldRunToday(config.days, w) THEN "wrong day"
                        ELSE "executed"
    /\ UNCHANGED <<notGate, config, job_days>>

---------------------------------------------------------------------------
(* The tasks of the web application (src/routes.py) *)

\* the devices a task of the model names
MaxTaskDevices == 2

\* what the task routes leave alone
notTasks == <<devVars, opVars, pc, delVars, cbVars, poll_i, mgrVars, result, sent, seen,
              sessions, batchVars, cmpVars, cycle, reply, info, running, keep, loopVars,
              gateVars, userVars>>

\* schedule_task, lines 684-701: the jobs after the call
ScheduleTask(id, cron_expression) == IF cron_expression THEN jobs \cup {id} ELSE jobs

\* add_task, lines 773-813: the row is committed, then the job is added if
\* the task is active and has a cron expression
AddTask ==
    /\ \E id \in TaskIds, is_active \in BOOLEAN, cron_expression \in BOOLEAN :
        /\ ~tasks[id].exists
        /\ tasks' = [tasks EXCEPT ![id] = [exists |-> TRUE, is_active |-> is_active,
                                            cron_expression |-> cron_expression]]
        /\ jobs' = IF is_active THEN ScheduleTask(id, cron_expression) ELSE jobs
    /\ UNCHANGED <<notTasks, exec>>

\* toggle_task_status, lines 833-851, action 'activate'
ActivateTask ==
    /\ \E id \in TaskIds :
        /\ tasks[id].exists
        /\ tasks' = [tasks EXCEPT ![id].is_active = TRUE]
        /\ jobs' = ScheduleTask(id, tasks[id].cron_expression)
    /\ UNCHANGED <<notTasks, exec>>

\* toggle_task_status, lines 833-851, action 'deactivate'
DeactivateTask ==
    /\ \E id \in TaskIds :
        /\ tasks[id].exists
        /\ tasks' = [tasks EXCEPT ![id].is_active = FALSE]
        /\ jobs' = jobs \ {id}
    /\ UNCHANGED <<notTasks, exec>>

\* delete_task, lines 881-912
DeleteTask ==
    /\ \E id \in TaskIds :
        /\ tasks[id].exists
        /\ tasks' = [tasks EXCEPT ![id] = NoTask]
        /\ jobs' = jobs \ {id}
    /\ UNCHANGED <<notTasks, exec>>

\* execute_task, lines 703-710, called by a job of the scheduler (line 688) or
\* by run_task_now for a task that exists (lines 823-826): it returns at once
\* unless the task exists and is active, and reads the task's devices
ExecuteTask ==
    /\ exec = NoExec
    /\ \E id \in TaskIds : \E n \in 0..MaxTaskDevices :
        /\ id \in jobs \/ tasks[id].exists
        /\ exec' = IF tasks[id].exists /\ tasks[id].is_active
                    THEN [task_id |-> id, left |-> n]
                    ELSE NoExec
    /\ UNCHANGED <<notTasks, tasks, jobs>>

\* execute_task, lines 712-743: the commands for the next device are sent
ExecuteOnDevice ==
    /\ exec # NoExec /\ exec.left > 0
    /\ exec' = [exec EXCEPT !.left = exec.left - 1]
    /\ UNCHANGED <<notTasks, tasks, jobs>>

\* execute_task, lines 745-762: the results are stored, or the commit fails
ExecuteEnds ==
    /\ exec # NoExec /\ exec.left = 0
    /\ exec' = NoExec
    /\ UNCHANGED <<notTasks, tasks, jobs>>

---------------------------------------------------------------------------
(* The users of the web application (src/decorators.py, src/routes.py) *)

\* the requests that may be between admission and commit at one time
MaxInFlight == 2

\* what the user routes leave alone
notUsers == <<devVars, opVars, pc, delVars, cbVars, poll_i, mgrVars, result, sent, seen,
              sessions, batchVars, cmpVars, cycle, reply, info, running, keep, loopVars,
              gateVars, taskVars>>

\* current_user.is_authenticated: the row exists and, by UserMixin, is active
Authenticated(n) == users[n].exists /\ users[n].is_active

\* decorators.py 5-18: admin_required lets the request of user n through
AdminRequired(n) ==
    /\ Authenticated(n)
    /\ ~(users[n].role # "admin" /\ ~users[n].is_admin)

\* a request that was let through: its route, who sent it and with which
\* role, the user it is about, and the role and status of its form
Admitted(route, actor, target, role, is_active) ==
    /\ Cardinality(inflight) < MaxInFlight
    /\ inflight' = inflight \cup
            {[route |-> route, actor |-> actor, actor_role |-> users[actor].role,
              target |-> target, role |-> role, is_active |-> is_active]}
    /\ UNCHANGED <<notUsers, users>>

\* add_user, lines 1027-1063: an admitted request creates a user with the role
\* and the status of its form; is_admin is left at its default
AddUser ==
    /\ \E actor \in UserNames, n \in UserNames, role \in {"admin", "manager"},
          is_active \in BOOLEAN :
        /\ AdminRequired(actor)
        /\ ~users[n].exists
        /\ users' = [users EXCEPT ![n] = [exists |-> TRUE, role |-> role,
                                            is_active |-> is_active, is_admin |-> FALSE]]
    /\ UNCHANGED <<notUsers, inflight>>

\* toggle_user_status, lines 1213-1220: the decorator, then the test that the
\* request is not about its sender, then the row is read
ToggleAdmitted ==
    \E actor \in UserNames, target \in UserNames, is_active \in BOOLEAN :
        /\ AdminRequired(actor)
        /\ target # actor
        /\ users[target].exists
        /\ Admitted("toggle_user_status", actor, target, "", is_active)

\* delete_user, lines 1256-1263
DeleteAdmitted ==
    \E actor \in UserNames, target \in UserNames :
        /\ AdminRequired(actor)
        /\ target # actor
        /\ users[target].exists
        /\ Admitted("delete_user", actor, target, "", FALSE)

\* edit_user, lines 1093-1101 and 1128-1131: login_required, then only a user
\* with the role 'admin' changes the role and the status of another user
EditAdmitted ==
    \E actor \in UserNames, target \in UserNames, role \in {"admin", "manager"},
       is_active \in BOOLEAN :
        /\ Authenticated(actor)
        /\ users[actor].role = "admin"
        /\ target # actor
        /\ users[target].exists
        /\ Admitted("edit_user", actor, target, role, is_active)

\* the handler of an admitted request commits: toggle_user_status (lines
\* 1222-1232), delete_user (1281-1285) or edit_user (1128-1166); a row that
\* another request has deleted meanwhile is not changed
Commit ==
    /\ \E r \in inflight :
        /\ inflight' = inflight \ {r}
        /\ users' =
            IF ~users[r.target].exists THEN users
            ELSE IF r.route = "toggle_user_status"
            THEN [users EXCEPT ![r.target].is_active = r.is_active]
            ELSE IF r.route = "delete_user"
            THEN [users EXCEPT ![r.target] = NoUser]
            ELSE [users EXCEPT ![r.target].role = r.role,
                               ![r.target].is_active = r.is_active]
    /\ UNCHANGED notUsers

---------------------------------------------------------------------------
(* The backup manager used on its own: backups deleted and created *)

Next ==
    \/ DeviceWrite
    \/ Tick
    \/ StartDeleteOldBackups
    \/ StartCreateBackup
    \/ DelList
    \/ DelRemoveFirst
    \/ DelRemoveFind
    \/ DelVerify
    \/ DelReturn
    \/ CbSave
    \/ CbPoll
    \/ CbDiagnose
    \/ CreateBackupReturn

Spec == Init /\ [][Next]_vars

\* the same on a device that may hold a backup with the short extension
InitShort ==
    /\ files \in SUBSET {ShortFiles[1], InitialFiles[2]}
    /\ current = "" /\ latest = ""
    /\ config = NoConfig
    /\ Quiet

SpecShort == InitShort /\ [][Next]_vars

(* The update orchestrator: update cycles, each with its backup *)

NextUpdate ==
    \/ DeviceWrite
    \/ Tick
    \/ StartInstallUpdate
    \/ DelList
    \/ DelRemoveFirst
    \/ DelRemoveFind
    \/ DelVerify
    \/ DelReturn
    \/ CbSave
    \/ CbPoll
    \/ CbDiagnose
    \/ IuAfterBackup
    \/ IuDownload
    \/ IuPoll
    \/ IuInstall

SpecUpdate == Init /\ [][NextUpdate]_vars

(* The threads of the console program and of the web application *)

NextThreads ==
    \/ StartScheduler
    \/ SchedulerRunPending
    \/ RunManualTask
    \/ WebJobFires
    \/ TaskReturns

SpecThreads == Init /\ [][NextThreads]_vars

(* The cleanup of the web application on its own *)

InitCleanup ==
    /\ files \in SUBSET CleanupFiles
    /\ current = "" /\ latest = ""
    /\ config = NoConfig
    /\ Quiet

NextCleanup == MgrDeleteOldBackups

SpecCleanup == InitCleanup /\ [][NextCleanup]_vars

(* The generators of backup names on their own *)

NextNames ==
    \/ GenerateShortBackupName
    \/ MgrGenerateBackupName

SpecNames == Init /\ [][NextNames]_vars

(* The automatic update of one device *)

NextAuto ==
    \/ DeviceWrite
    \/ StartAutoUpdate
    \/ DelList
    \/ DelRemoveFirst
    \/ DelRemoveFind
    \/ DelVerify
    \/ DelReturn
    \/ CbSave
    \/ CbPoll
    \/ CbDiagnose
    \/ AuAfterBackup
    \/ AuCheck
    \/ IuAfterBackup
    \/ IuDownload
    \/ IuPoll
    \/ IuInstall
    \/ AuOutcome

SpecAuto == Init /\ [][NextAuto]_vars

(* The web application: updates with and without a backup *)

NextMgr ==
    \/ DeviceWrite
    \/ Tick
    \/ StartMgrUpdateWithBackup
    \/ StartMgrUpdate
    \/ MgrBackupConnect
    \/ MgrBackupSave
    \/ MgrUpdateConnect
    \/ MgrDownload
    \/ MgrStatus
    \/ MgrInstall
    \/ MgrCleanup

SpecMgr == Init /\ [][NextMgr]_vars

(* The operations that open sessions, one after the other *)

NextSessions ==
    \/ StartConnExecute
    \/ CeConnect
    \/ CeExec
    \/ StartConnTest
    \/ CtConnect
    \/ CtClose
    \/ StartMgrSystemInfo
    \/ GiConnect
    \/ GiBody
    \/ StartMgrCheckForUpdates
    \/ CuConnect
    \/ CuInfoFailed
    \/ CuCheck
    \/ StartMgrTestConnection
    \/ TcConnect
    \/ TcBody
    \/ StartMgrListBackups
    \/ LbConnect
    \/ LbBody
    \/ StartMgrUpdateWithBackup
    \/ MgrBackupConnect
    \/ MgrBackupSave
    \/ MgrUpdateConnect
    \/ MgrDownload
    \/ MgrStatus
    \/ MgrInstall
    \/ MgrCleanup

SpecSessions == Init /\ [][NextSessions]_vars

(* The batch runs, one after the other *)

InitBatch ==
    /\ files = {}
    /\ current = "" /\ latest = ""
    /\ config = NoConfig
    /\ Quiet

NextBatch ==
    \/ BatchStart
    \/ BatchStep
    \/ BatchEnd

SpecBatch == InitBatch /\ [][NextBatch]_vars

(* The version comparator on its own *)

NextVersions == CompareVersionsCall

SpecVersions == InitVersions /\ [][NextVersions]_vars

(* The parsers on their own *)

NextParsers ==
    \/ GriIdentity \/ GriVersion \/ GriRouterboard \/ GriError
    \/ GsiResource \/ GsiIdentity \/ NextCommand
    \/ ParseUpdateStatusCall

\* no reply has been parsed
InitParsers ==
    /\ files = {}
    /\ current = "" /\ latest = ""
    /\ config = NoConfig
    /\ Quiet

SpecParsers == InitParsers /\ [][NextParsers]_vars

(* The checks for updates on their own *)

NextChecks ==
    \/ UpdaterCheckForUpdates \/ UpdaterCheckFails
    \/ MgrCheckResult \/ MgrCheckFails

SpecChecks == InitParsers /\ [][NextChecks]_vars

(* The scheduler of the console program on its own *)

NextLoop ==
    \/ ManageStart
    \/ StopScheduler
    \/ \E th \in 1..MaxStarts : LoopStep(th)

SpecLoop == InitParsers /\ [][NextLoop]_vars

\* every thread that can take a step takes one in the end: a job returns,
\* a sleep ends
SpecLoopFair == SpecLoop /\ \A th \in 1..MaxStarts : WF_vars(LoopStep(th))

(* The schedule and the day gate on their own *)

\* the configuration file has been read
InitGate ==
    /\ files = {}
    /\ current = "" /\ latest = ""
    /\ config \in [enabled : BOOLEAN, days : DaysLists]
    /\ Quiet

NextGate == SetupSchedules \/ JobFires

SpecGate == InitGate /\ [][NextGate]_vars

(* The tasks of the web application on their own *)

NextTasks ==
    \/ AddTask \/ ActivateTask \/ DeactivateTask \/ DeleteTask
    \/ ExecuteTask \/ ExecuteOnDevice \/ ExecuteEnds

SpecTasks == InitParsers /\ [][NextTasks]_vars

(* The users of the web application on their own *)

NextUsers ==
    \/ AddUser
    \/ ToggleAdmitted \/ DeleteAdmitted \/ EditAdmitted
    \/ Commit

SpecUsers == InitParsers /\ [][NextUsers]_vars

---------------------------------------------------------------------------
(* The properties *)

\* C1: install_update sends the download and install commands only after
\* create_backup has returned success, which it does only when the device has
\* shown the backup file; when create_backup fails, install_update returns a
\* failure and neither command has been sent.
C1_BackupBeforeUpdate ==
    op = "install" =>
        /\ ("download" \in sent \/ "install" \in sent) => "file_shown" \in seen
        /\ (pc = "cb_ret" /\ ~cb_ret.ok) => ("download" \notin sent /\ "install" \notin sent)
        /\ (pc = "done" /\ "file_shown" \notin seen) => (~result.ok /\ ("download" \notin sent /\ "install" \notin sent))

\* install_update has returned the failure of its backup, after a save command
C1_Witness ==
    op = "install" /\ pc = "done" /\ result.kind = "backup_failed" /\ "save" \in sent

\* C2: perform_update_with_backup, asked for a backup, sends the download and
\* install commands only if the backup succeeded and was confirmed: the save
\* command reached the device, which reported no error, and create_backup
\* returned the status 'success'.
C2_UpdateOnlyAfterBackup ==
    (op = "update_with_backup" /\ pc \in {"mu_status", "mu_install"} /\ ("download" \in sent \/ "install" \in sent)) =>
        (backup_result = "success" /\ "save" \in sent /\ "save_error" \notin seen)

\* C3: the download polling loop makes at most 30 status queries; when the
\* 30th comes without the device having shown the download complete, the
\* operation ends there with a failure and no install command, and the
\* failure of a timeout is returned by the 30th query only.
C3_PollingBounded ==
    /\ [](poll_i < 30)
    /\ [][(pc = "iu_poll" /\ pc' # "iu_poll") =>
            /\ (poll_i = 29 /\ "downloaded" \notin seen') =>
                  (pc' = "done" /\ ~result'.ok /\ "install" \notin sent')
            /\ result'.kind = "timeout" =>
                  (poll_i = 29 /\ pc' = "done" /\ ~result'.ok /\ "install" \notin sent'
                   /\ "downloaded" \notin seen')]_vars

\* install_update has returned the failure of a timeout
C3_Witness == op = "install" /\ pc = "done" /\ result.kind = "timeout"

\* C4: the install command is sent only if the stderr of the download command
\* held no error and a status query showed the download complete; when the
\* stderr of the download held an error, or a query showed an error and none
\* showed the download complete, the operation fails and sends no install.
C4_InstallOnlyAfterDownload ==
    op = "install" =>
        /\ (pc = "iu_install" \/ "install" \in sent) =>
              ("download_error" \notin seen /\ "downloaded" \in seen)
        /\ (pc = "done" /\ ("download_error" \in seen
                            \/ ("poll_error" \in seen /\ "downloaded" \notin seen))) =>
              (~result.ok /\ "install" \notin sent)

\* a status query has shown an error and no download, and the operation failed
C4_Witness ==
    /\ op = "install" /\ pc = "done"
    /\ "poll_error" \in seen /\ "downloaded" \notin seen
    /\ result.kind = "poll_error"

\* C5: once install_update has issued the install command, it returns success
\* exactly when the call did not raise and no line of its stderr holds
\* "error", whatever the case of the letters.
C5_InstallOutcome ==
    (op = "install" /\ pc = "done" /\ ("install" \in sent \/ "install_raised" \in seen)) =>
        (result.ok <=> ("install_raised" \notin seen /\ "install_error" \notin seen))

\* the install command was received and install_update returned success
C5_Witness == op = "install" /\ pc = "done" /\ "install" \in sent /\ result.ok

\* C6: perform_update returns the status 'success' only if its status query
\* showed the download complete, the install command did not fail and the
\* stderr of the install held no error.
C6_UpdateSuccessMeansInstalled ==
    (pc = "done" /\ result.kind = "update" /\ result.ok) =>
        /\ "downloaded" \in seen
        /\ "install_raised" \notin seen
        /\ "install_error" \notin seen

\* C7: create_backup sends the save command only after its deletion pass has
\* finished, and when the device receives the save command no backup with the
\* prefix remains on it.
C7_SaveAfterDeletion ==
    /\ []("save" \in sent => pc \notin {"del_list", "del_rm1", "del_rm2", "del_verify", "del_ret"})
    /\ [][(op = "create" /\ "save" \notin sent /\ "save" \in sent') =>
            (pc = "cb_save" /\ PrefixBackups(files) = {})]_vars

\* C8: when create_backup has run twice in succession and the second call has
\* returned success, exactly one backup with the prefix is on the device.
C8_OneBackupAfterTwoCalls ==
    (prevOp = "create" /\ op = "create" /\ pc = "done" /\ result.ok) =>
        Cardinality(PrefixBackups(files)) = 1

\* C9: create_backup returns (True, name) only if one of its polls, of which
\* there are at most 8, was shown a file whose name holds the base name and
\* the extension; when the stderr of the save holds an error, or 8 polls have
\* shown no such file, it returns (False, "").
C9_BackupConfirmed ==
    /\ attempt <= 8
    /\ cb_ret.returned =>
        /\ cb_ret.ok => ("file_shown" \in seen /\ attempt < 8 /\ cb_ret.name # "")
        /\ ("save_error" \in seen \/ attempt = 8) => (~cb_ret.ok /\ cb_ret.name = "")

\* create_backup returns success on its 8th poll
C9_Witness == op = "create" /\ pc = "cb_ret" /\ cb_ret.ok /\ attempt = 7

\* C10: delete_old_backups, when the listing holds no backup with the prefix,
\* returns 0 and sends no remove command.
C10_NothingToDelete ==
    (op = "delete" /\ pc = "done" /\ "listed_none" \in seen) =>
        (result.ok /\ result.count = 0 /\ "remove" \notin sent)

\* delete_old_backups has returned on a device that holds another tool's backup
C10_Witness ==
    op = "delete" /\ pc = "done" /\ "listed_none" \in seen /\ "cfg.backup" \in files

\* C11: in delete_old_backups a failure for one backup never aborts the pass:
\* the loop visits the backups of the initial listing one by one, each visit
\* starting with the removal attempt of line 77, the pass ends only after the
\* last of them, and the count returned lies between 0 and their number.
C11_PassNeverAborted ==
    /\ [](pc \in {"del_rm1", "del_rm2", "del_verify"} =>
            (idx \in 1..Len(backups) /\ deleted_count \in 0..(idx - 1)))
    /\ [](pc = "del_ret" => (idx = Len(backups) + 1 /\ deleted_count \in 0..Len(backups)))
    /\ [][/\ (pc \in {"del_rm1", "del_rm2", "del_verify"} /\ idx' # idx) => idx' = idx + 1
          /\ (pc' = "del_rm2" /\ pc # pc') => (pc = "del_rm1" /\ idx' = idx)
          /\ (pc' = "del_verify" /\ pc # pc') => (pc = "del_rm2" /\ idx' = idx)
          /\ (op = "delete" /\ pc = "del_ret" /\ pc' = "done") =>
                result'.count = deleted_count]_vars

\* the pass over two listed backups is over, every removal having raised
\* before the device received it
C11_Witness ==
    op = "delete" /\ pc = "del_ret" /\ Len(backups) = 2 /\ "remove" \notin sent

\* C12: delete_old_backups counts a backup as deleted only if the file is
\* absent from the device when the deletion is verified.
C12_CountedMeansRemoved ==
    [][(pc = "del_verify" /\ deleted_count' = deleted_count + 1) =>
          backups[idx] \notin files]_vars

\* C17: a command whose stderr holds "error" is a failed command, though the
\* call itself succeeded: when the save command of MikroTikManager.create_backup
\* is answered with an error on stderr, create_backup does not return the
\* status 'success'.
C17_StderrErrorFailsBackup ==
    (op = "update_with_backup" /\ pc = "mu_connect" /\ "save_error" \in seen) =>
        backup_result # "success"

\* a version text of dotted numbers: digits and single dots between them
IsDotted(v) ==
    /\ v # ""
    /\ \A i \in 1..Len(v) : InStr(Char(v, i), Digits) \/ Char(v, i) = "."
    /\ Char(v, 1) # "." /\ Char(v, Len(v)) # "."
    /\ \A i \in 1..(Len(v) - 1) : ~(Char(v, i) = "." /\ Char(v, i + 1) = ".")

\* the numbers of the first word of v, each component that is no number as 0
NumbersOf(v) ==
    LET parts == SplitAt(Head(SplitWhitespace(v)), ".")
    IN  [i \in 1..Len(parts) |-> IF IsIntLiteral(parts[i]) THEN IntOf(parts[i]) ELSE 0]

\* a is before b in the lexicographic order of the sequences padded with zeros
LexLess(a, b) ==
    LET n == IF Len(a) > Len(b) THEN Len(a) ELSE Len(b)
        At(q, i) == IF i <= Len(q) THEN q[i] ELSE 0
    IN  \E i \in 1..n : At(a, i) < At(b, i) /\ \A j \in 1..(i - 1) : At(a, j) = At(b, j)

AsText(b) == IF b THEN "True" ELSE "False"

\* C18: _compare_versions compares the dotted components from left to right,
\* a missing component counting as 0: the five examples of the specification
\* have the results it gives, and for every two texts of dotted numbers the
\* result is the lexicographic comparison of the zero-padded sequences.
C18_ComponentwiseComparison ==
    /\ CompareVersions("6.49.6", "6.49.10") = "True"
    /\ CompareVersions("6.49.10", "6.49.6") = "False"
    /\ CompareVersions("6.49", "6.49.0") = "False"
    /\ CompareVersions("7.1", "7") = "False"
    /\ CompareVersions("7", "7.1") = "True"
    /\ (newer # "not called" /\ IsDotted(current) /\ IsDotted(latest)) =>
          newer = AsText(LexLess(NumbersOf(current), NumbersOf(latest)))

\* the comparator found "7.1" newer than "7"
C18_Witness == current = "7" /\ latest = "7.1" /\ newer = "True"

\* C19: a component that is no number counts as 0 and the comparison goes on:
\* for all version texts that hold a word, the result is the comparison of the
\* sequences in which every such component is replaced by 0.
C19_NonNumericAsZero ==
    (newer # "not called" /\ SplitWhitespace(current) # <<>> /\ SplitWhitespace(latest) # <<>>) =>
        newer = AsText(LexLess(NumbersOf(current), NumbersOf(latest)))

\* a version text the comparator cannot read: no word in it, or a component
\* of its first word that is no number
Malformed(v) ==
    \/ SplitWhitespace(v) = <<>>
    \/ LET parts == SplitAt(Head(SplitWhitespace(v)), ".")
       IN  \E i \in 1..Len(parts) : ~IsIntLiteral(parts[i])

\* C20: _compare_versions never raises, and a comparison in which one of the
\* texts is malformed gives False.
C20_MalformedIsNotNewer ==
    /\ newer \in {"not called", "True", "False"}
    /\ (newer # "not called" /\ (Malformed(current) \/ Malformed(latest))) => newer = "False"

\* the comparator was given an empty text and a text with an empty component
C20_Witness == current = "" /\ latest = "6..1" /\ newer = "False"

RequestedDevices ==
    IF task \in SchedulerTasks /\ (requested = <<>> \/ requested = <<"all">>)
    THEN Configured
    ELSE {requested[k] : k \in 1..Len(requested)}

EntriesOf(d) == {i \in DOMAIN results : results[i].device = d}

BatchDone == op = "batch" /\ pc = "done"

\* C13: when a batch run is over, each requested device has exactly one
\* entry in the results, and the entries, each of them a success, a failure
\* or an offline device, are as many as the devices requested.
C13_OneOutcomePerRequested ==
    (BatchDone /\ task # "execute_task") =>
        /\ \A d \in RequestedDevices : Cardinality(EntriesOf(d)) = 1
        /\ Len(results) = Cardinality(RequestedDevices)

\* C14: a failure on one device never keeps the devices after it from being
\* processed: while the run goes on, every device before the current one
\* that the run can look up has its entry, the run moves on by one device
\* at a time, and it ends only after the last device.
C14_FailureIsolated ==
    /\ [](pc = "batch_loop" =>
            /\ position \in 1..(Len(devices) + 1)
            /\ \A i \in 1..(position - 1) :
                 devices[i] \in Configured => EntriesOf(devices[i]) # {})
    /\ [](BatchDone =>
            \A i \in 1..Len(devices) :
                 devices[i] \in Configured => EntriesOf(devices[i]) # {})
    /\ [][(pc = "batch_loop" /\ pc' = "batch_loop") => position' = position + 1]_vars

\* a run of two devices is over, the first of which failed
C14_Witness ==
    /\ BatchDone
    /\ Len(results) = 2
    /\ results[1].status \in FailureStatuses
    /\ results[1].device = devices[1] /\ results[2].device = devices[2]

\* C15: in check_all_devices and the scheduler's tasks, a device that does
\* not answer is recorded 'offline' and no operation is called on it.
C15_OfflineWithoutOperation ==
    (op = "batch" /\ task \in {"check_all_devices"} \cup SchedulerTasks) =>
        \A i \in DOMAIN results :
            results[i].device \in down =>
                (results[i].status = "offline" /\ results[i].device \notin operated)

\* C29: while an operation runs, at most one session to the device is open
\* at any moment: no operation holds a second session next to its own.
C29_AtMostOneSession == sessions <= 1

\* C24: no public operation of the engine lets an exception cross its
\* boundary: whatever the device does, the operation returns a value.
C24_NoExceptionCrosses ==
    (pc = "done" /\ op \in {"execute_command", "test_connection"}) => result.kind # "raised"

\* C22: the backup step of an automatic update is entered only after the
\* check found an update: a device whose turn ends as 'no_update' has
\* received no remove and no save command, and no backup was made for it.
C22_BackupOnlyAfterCheck ==
    (cycle.phase = "ended" /\ cycle.status = "no_update") =>
        ("remove" \notin sent /\ "save" \notin sent /\ cycle.backup_name = "")

\* C30: when the turn of a device ends as 'updated' or 'failed', the backup
\* file named in the outcome is on the device.
C30_NamedBackupPresent ==
    (cycle.phase = "ended" /\ cycle.status \in {"updated", "failed"}) =>
        cycle.backup_name \in files

\* C23: whatever the comment, a generated backup name has at most 20
\* characters, starts with the prefix mum_ and is made of word characters only.
C23_NameShortPrefixedClean ==
    (pc = "done" /\ op \in {"generate_short_backup_name", "mgr_backup_name"}) =>
        /\ Len(backup_base_name) <= 20
        /\ StartsWith(backup_base_name, BackupPrefix)
        /\ \A i \in 1..Len(backup_base_name) : IsWord(Char(backup_base_name, i))

\* the same for the names BackupManager generates from a comment
NamesOfBackupManagerAreClean ==
    (pc = "done" /\ op = "generate_short_backup_name") =>
        /\ Len(backup_base_name) <= 20
        /\ StartsWith(backup_base_name, BackupPrefix)
        /\ \A i \in 1..Len(backup_base_name) : IsWord(Char(backup_base_name, i))

\* the threads that are inside a batch run
InBatch == {th \in Threads : running[th] \notin {"", "not started"}}

\* C25: batch runs never overlap: at any moment at most one thread is
\* inside a batch run.
C25_NoOverlap == Cardinality(InBatch) <= 1

\* the backups among the files fs
BackupsOn(fs) == {f \in fs : EndsWith(f, ".backup")}

\* f was created before g: the device lists its files in that order
CreatedBefore(f, g) ==
    \E i, j \in 1..Len(DeviceOrder) : i < j /\ DeviceOrder[i] = f /\ DeviceOrder[j] = g

\* C28: when delete_old_backups(device, keep_count) returns success and no
\* removal failed, the device holds min(n, keep_count) of its n backups, and
\* every backup that was deleted was created before every one that was kept.
C28_KeepsMostRecent ==
    [][(pc = "idle" /\ pc' = "done" /\ op' = "mgr_delete_old_backups"
            /\ result'.ok /\ "remove_failed" \notin seen') =>
          LET n == Cardinality(BackupsOn(files))
          IN  /\ Cardinality(BackupsOn(files')) = (IF n < keep' THEN n ELSE keep')
              /\ \A f \in BackupsOn(files) \ files' : \A g \in BackupsOn(files') :
                    CreatedBefore(f, g)]_vars


\* the reply of the device in the example of C26
ExampleReply == <<"version: 6.49.7 (stable)", "architecture-name: arm">>

\* the values that stand for "not known"
UnknownSentinels == {"Unknown", "unknown", Neizvestno}

\* C26: parsing the reply "version: 6.49.7 (stable)", "architecture-name: arm"
\* gives the version "6.49.7 (stable)" and the architecture "arm", and the
\* board, which the reply does not hold, is set to the value for "not known".
C26_ExampleParsed ==
    (reply = ExampleReply /\ pc \in {"gri_version_parsed", "gsi_resource_parsed"}) =>
        /\ info.version = "6.49.7 (stable)"
        /\ info.architecture = "arm"
        /\ op = "get_routeros_info" => info.board \in UnknownSentinels

\* the value _parse_update_status would give a field if the first line
\* holding its key decided
FirstOfUpdate(lines, key) ==
    LET hits == {k \in 1..Len(lines) : Contains(Lower(lines[k]), key)}
    IN  IF hits = {} THEN Neizvestno ELSE Strip(AfterColon(lines[Min(hits)]))

\* C27: every field a parser fills holds the value of the first line of the
\* reply that matches its key, however many lines match.
C27_FirstMatchWins ==
    /\ (op = "get_routeros_info" /\ pc = "gri_identity_parsed") =>
            info.identity = FirstOfLoop(reply, "name:")
    /\ (op = "get_routeros_info" /\ pc = "gri_version_parsed") =>
            /\ info.version = FirstOfLoop(reply, "version:")
            /\ info.board = FirstOfLoop(reply, "board-name:")
            /\ info.architecture = FirstOfLoop(reply, "architecture-name:")
    /\ (op = "get_routeros_info" /\ pc = "done" /\ info.error = Absent) =>
            /\ info.model = FirstOfLoop(reply, "model:")
            /\ info.serial = FirstOfLoop(reply, "serial-number:")
    /\ op = "_parse_update_status" =>
            /\ info.status = FirstOfUpdate(reply, "status:")
            /\ info.latest_version = FirstOfUpdate(reply, "latest-version:")
            /\ info.current_version = FirstOfUpdate(reply, "installed-version:")

\* the same for the one loop that ends at its first match
IdentityIsFirstMatch ==
    (op = "get_routeros_info" /\ pc = "gri_identity_parsed") =>
        info.identity = FirstOfLoop(reply, "name:")


\* the latest version the reply names, as _parse_update_status reads it
LatestIn(lines) == ParseUpdateStatus(lines).latest_version

\* the comparator finds the latest version of the reply newer than the version v
NewerThan(v) ==
    /\ v \notin UnknownSentinels /\ LatestIn(reply) # Neizvestno
    /\ CompareVersions(v, LatestIn(reply)) = "True"

\* C21: a check for updates reports an update as available exactly when the
\* comparator finds the latest version of the reply newer than the current
\* one; when one of the two versions is not known, or the check fails, it
\* reports none.
C21_AvailableIffNewer ==
    /\ op = "check_for_updates" =>
            info.available = (info.status # "error" /\ NewerThan(current))
    /\ op = "mgr_check_for_updates" =>
            info.has_updates = (info.status # "error" /\ NewerThan(info.current_version))

\* the same for the update engine alone
UpdaterAvailableIffNewer ==
    op = "check_for_updates" =>
        info.available = (info.status # "error" /\ NewerThan(current))


\* C31: a backup file create_backup has confirmed as created is among the
\* names list_backups returns for the device at that moment.
C31_ConfirmedIsListed ==
    (op = "create" /\ pc = "cb_ret" /\ cb_ret.ok) =>
        InList(cb_ret.name, ParseBackups(FilePrintWhereNameBackup(files)))

\* the same for the files whose extension is .backup
ConfirmedLongIsListed ==
    (op = "create" /\ pc = "cb_ret" /\ cb_ret.ok /\ EndsWith(cb_ret.name, ".backup")) =>
        InList(cb_ret.name, ParseBackups(FilePrintWhereNameBackup(files)))


\* the threads that are inside _scheduler_loop
AliveLoops == {th \in 1..Len(loops) : loops[th] # "exited"}

\* the threads that are inside schedule.run_pending()
ExecutingLoops == {th \in 1..Len(loops) : loops[th] \in {"run_pending", "job"}}

\* C32: after any sequence of start_scheduler and stop_scheduler calls, at
\* most one _scheduler_loop thread is executing scheduled jobs at any time.
C32_OneLoopThread == Cardinality(ExecutingLoops) <= 1

\* start_scheduler creates no thread while is_running is set
StartWhileRunningCreatesNone ==
    [][is_running => Len(loops') = Len(loops)]_vars

\* C33: once stop_scheduler has been called, unless start_scheduler is called
\* again, every loop thread exits in the end; and a thread that finds
\* is_running false when its iteration has ended starts no job any more.
C33_StopEndsLoop ==
    /\ (~is_running) ~> (is_running \/ AliveLoops = {})
    /\ [][\A th \in 1..Len(loops) :
            (loops[th] = "test" /\ ~is_running /\ loops'[th] # loops[th]) =>
                loops'[th] = "exited"]_vars

\* the loop threads have exited after stop_scheduler
C33_Witness == ~is_running /\ registered = {} /\ loops = <<"exited", "exited">>


\* C34: the schedule and the day gate agree: when the job of an enabled task
\* fires on a weekday the schedule holds for it, the body of the task passes
\* _should_run_today and executes.
C34_ScheduleAndGateAgree ==
    (config.enabled /\ today # "" /\ today \in job_days) => executed = "executed"

\* the same for the 'days' lists without 'everyday'
GateAgreesWithoutEveryday ==
    (config.enabled /\ today # "" /\ today \in job_days
        /\ \A k \in 1..Len(config.days) : config.days[k] # "everyday") => executed = "executed"


\* the first word of v, cut at its dots
Components(v) == SplitAt(Head(SplitWhitespace(v)), ".")

\* a well-formed dotted version: numbers separated by dots, then possibly
\* whitespace and a suffix
WellFormedVersion(v) ==
    /\ SplitWhitespace(v) # <<>>
    /\ \A i \in 1..Len(Components(v)) : IsDigits(Components(v)[i])

\* a and b differ at most by trailing ".0" components and by what follows
\* the first whitespace
SameRelease(a, b) ==
    LET n == Max({Len(Components(a)), Len(Components(b))})
        At(v, i) == IF i <= Len(Components(v)) THEN IntOf(Components(v)[i]) ELSE 0
    IN  \A i \in 1..n : At(a, i) = At(b, i)

\* C35: the comparator is irreflexive and asymmetric on well-formed dotted
\* versions, and finds neither of two versions newer when they differ only by
\* trailing ".0" components or by a suffix after the first whitespace.
C35_IrreflexiveAsymmetric ==
    (newer # "not called" /\ WellFormedVersion(current) /\ WellFormedVersion(latest)) =>
        /\ current = latest => newer = "False"
        /\ newer = "True" => CompareVersions(latest, current) = "False"
        /\ SameRelease(current, latest) =>
                (newer = "False" /\ CompareVersions(latest, current) = "False")

\* the comparator was given a version and the same with a trailing ".0"
C35_Witness == current = "6.49.0" /\ latest = "6.49" /\ newer = "False"

\* the comparator was given a version and the same with a suffix
SuffixCompared == current = "7.2 (stable)" /\ latest = "7.2" /\ newer = "False"


\* C36: a task that is not active never causes a device operation:
\* execute_task sends commands to a device only if the task exists and is
\* active at that moment, and a task that is deactivated or deleted has no job
\* in the scheduler.
C36_InactiveTaskDoesNothing ==
    /\ [][(exec # NoExec /\ exec' # NoExec /\ exec'.left < exec.left) =>
            (tasks[exec.task_id].exists /\ tasks[exec.task_id].is_active)]_vars
    /\ [](\A id \in TaskIds : (~tasks[id].exists \/ ~tasks[id].is_active) => id \notin jobs)

\* a task that is not active has no job, and execute_task starts on no device
\* for it
InactiveTaskNeverStarts ==
    /\ [][(exec = NoExec /\ exec' # NoExec) =>
            (tasks[exec'.task_id].exists /\ tasks[exec'.task_id].is_active)]_vars
    /\ [](\A id \in TaskIds : (~tasks[id].exists \/ ~tasks[id].is_active) => id \notin jobs)


\* the routes under admin_required
AdminOnly == {"toggle_user_status", "delete_user"}

\* C37: a user whose role is not 'admin' is never admitted by
\* admin_required: every request to an admin-only route that was let through
\* came from a user whose role was 'admin', and no user with another role
\* would be let through.
C37_OnlyAdminsAdmitted ==
    /\ \A r \in inflight : r.route \in AdminOnly => r.actor_role = "admin"
    /\ \A n \in UserNames : AdminRequired(n) => users[n].role = "admin"

\* what does hold of admin_required: a user it lets through has the role
\* 'admin' or is the user app.py created, the only one with is_admin set
AdmittedIsAdminOrDefault ==
    /\ \A n \in UserNames : users[n].is_admin => n = "admin"
    /\ \A n \in UserNames : AdminRequired(n) => users[n].role = "admin" \/ n = "admin"

\* the active users whose role is 'admin'
ActiveAdmins == {n \in UserNames : users[n].exists /\ users[n].is_active /\ users[n].role = "admin"}

\* C38: at least one active administrator always exists.
C38_AnAdminRemains == ActiveAdmins # {}

===========================================================================
